---- MODULE Spec2Model ----
(***************************************************************************)
(* A model of the NetworkClient HTTP client (src/Network.cpp, the WinHTTP  *)
(* variant): URL decomposition, the per-host rate limiter, the request     *)
(* path with its two mutexes, the session lifecycle and the asynchronous   *)
(* dispatch wrapper.                                                       *)
(*                                                                         *)
(* Strings are sequences of one-character strings, so that find/substr     *)
(* and std::stoi are computed as the code computes them.  Positions are    *)
(* 1-based; 0 stands for std::string::npos.  Time is the steady clock in   *)
(* milliseconds; it advances in steps of TickMs.                           *)
(***************************************************************************)
EXTENDS Integers, Sequences, FiniteSets, TLC

\* ------------------------------------------------------------------------
\* Bounds of the model
\* ------------------------------------------------------------------------

\* Clock steps per rate-limit window (the clock advances WindowMs / TicksPerWindow at a time).
TicksPerWindow == 2

\* Number of clock steps explored.
MaxTicks == 3

\* Largest rate_limit_per_minute a call is given.
MaxLimit == 2

\* Number of Request / RequestAsync calls issued in one behaviour.
MaxCalls == 4

\* Largest max_retries a call is given.
MaxRetries == 2

\* Longest transport script (answers to the successive attempts of one call).
MaxScript == 2

\* Longest sequence of rounds of the loop that reads a response body.
MaxChunks == 2

\* Number of sessions that are open at once.
MaxSessions == 3

\* Longest argument of UrlEncode, but for the one of the test.
MaxInput == 3

\* Number of WebSocket::Connect calls in one behaviour.
MaxConnects == 2

\* ------------------------------------------------------------------------
\* Program constants
\* ------------------------------------------------------------------------

\* The length of the rate-limit window, in milliseconds.
WindowMs == 60000

\* HTTP 429 Too Many Requests.
TooManyRequests == 429

\* Largest value of int (std::stoi reports std::out_of_range beyond it).
IntMax == 2147483647

\* The number of values of half a DWORD (a DWORD has HalfWord * HalfWord).
HalfWord == 65536

TickMs == WindowMs \div TicksPerWindow

\* ------------------------------------------------------------------------
\* Strings
\* ------------------------------------------------------------------------

MinOf(S) == CHOOSE x \in S : \A y \in S : x <= y

\* s.compare(i, Len(pat), pat) == 0
MatchAt(s, pat, i) ==
    /\ i >= 1
    /\ i + Len(pat) - 1 <= Len(s)
    /\ \A j \in 1..Len(pat) : s[i + j - 1] = pat[j]

\* s.find(pat, from): the first position >= from where pat occurs, 0 for npos.
Find(s, pat, from) ==
    LET hits == {i \in from..Len(s) : MatchAt(s, pat, i)}
    IN  IF hits = {} THEN 0 ELSE MinOf(hits)

\* s.substr(pos): the suffix starting at pos.
SubstrFrom(s, pos) == SubSeq(s, pos, Len(s))

\* s.substr(pos, n): at most n characters starting at pos.
Substr(s, pos, n) ==
    SubSeq(s, pos, IF pos + n - 1 > Len(s) THEN Len(s) ELSE pos + n - 1)

Digits == <<"0", "1", "2", "3", "4", "5", "6", "7", "8", "9">>

IsDigit(c) == \E d \in 1..10 : Digits[d] = c

DigitVal(c) == (CHOOSE d \in 1..10 : Digits[d] = c) - 1

IsSpace(c) == c \in {" ", "\t", "\n", "\r"}

RECURSIVE SkipSpace(_, _)
SkipSpace(s, i) ==
    IF i <= Len(s) /\ IsSpace(s[i]) THEN SkipSpace(s, i + 1) ELSE i

\* The value of the maximal run of digits of s starting at i, capped just above
\* IntMax so that a long run is reported as out of range and not computed.
RECURSIVE DigitRun(_, _, _)
DigitRun(s, i, acc) ==
    IF i <= Len(s) /\ IsDigit(s[i])
    THEN DigitRun(s, i + 1,
                  IF acc > IntMax THEN acc ELSE acc * 10 + DigitVal(s[i]))
    ELSE acc

\* std::stoi(s): leading white space, an optional sign, then decimal digits;
\* trailing characters are ignored.  "invalid_argument" when no digit follows,
\* "out_of_range" when the value does not fit an int.
Stoi(s) ==
    LET i    == SkipSpace(s, 1)
        neg  == i <= Len(s) /\ s[i] = "-"
        j    == IF i <= Len(s) /\ s[i] \in {"-", "+"} THEN i + 1 ELSE i
        v    == DigitRun(s, j, 0)
    IN  IF ~(j <= Len(s) /\ IsDigit(s[j]))
        THEN [throws |-> "invalid_argument", value |-> 0]
        ELSE IF (~neg /\ v > IntMax) \/ (neg /\ v > IntMax + 1)
        THEN [throws |-> "out_of_range", value |-> 0]
        ELSE [throws |-> "none", value |-> IF neg THEN 0 - v ELSE v]

\* ------------------------------------------------------------------------
\* Network::ParseUrl
\* ------------------------------------------------------------------------

SchemeSep == <<":", "/", "/">>

Https == <<"h", "t", "t", "p", "s">>

\* ParseUrl that returns true where it returns false.
NoParse_Accepted == [ok |-> TRUE, throws |-> "none", protocol |-> <<>>,
                     host |-> <<>>, path |-> <<>>, port |-> 0]

\* if (protocol_end == std::string::npos) return false;
NoParse == [ok |-> FALSE, throws |-> "none", protocol |-> <<>>,
            host |-> <<>>, path |-> <<>>, port |-> 0]

\* The default port, whatever the scheme.
DefaultPort_Always80(protocol) == 80

\* port = (protocol == "https") ? 443 : 80;
DefaultPort(protocol) == IF protocol = Https THEN 443 ELSE 80

\* ok: the return value; throws: the exception that leaves ParseUrl instead of
\* a return value ("none" when it returns).
ParseUrl(url) ==
    LET protocol_end == Find(url, SchemeSep, 1)
    IN  IF protocol_end = 0 THEN NoParse
        ELSE
        LET protocol   == Substr(url, 1, protocol_end - 1)
            host_start == protocol_end + 3
            path_start == Find(url, <<"/">>, host_start)
            host0      == IF path_start = 0
                          THEN SubstrFrom(url, host_start)
                          ELSE Substr(url, host_start, path_start - host_start)
            path       == IF path_start = 0
                          THEN <<"/">>
                          ELSE SubstrFrom(url, path_start)
            port0      == DefaultPort(protocol)
            port_sep   == Find(host0, <<":">>, 1)
        IN  IF port_sep = 0
            THEN [ok |-> TRUE, throws |-> "none", protocol |-> protocol,
                  host |-> host0, path |-> path, port |-> port0]
            ELSE
            LET n == Stoi(SubstrFrom(host0, port_sep + 1))
            IN  IF n.throws # "none"
                THEN [NoParse EXCEPT !.throws = n.throws]
                ELSE [ok |-> TRUE, throws |-> "none", protocol |-> protocol,
                      host |-> Substr(host0, 1, port_sep - 1),
                      path |-> path, port |-> n.value]

\* ------------------------------------------------------------------------
\* Inputs
\* ------------------------------------------------------------------------

UrlA     == <<"h", "t", "t", "p", ":", "/", "/", "a", "/">>
UrlAPath == <<"h", "t", "t", "p", ":", "/", "/", "a", "/", "x">>
UrlB     == <<"h", "t", "t", "p", "s", ":", "/", "/", "b">>
UrlNoSep == <<"a", "/", "x">>
UrlBadPort == <<"h", "t", "t", "p", ":", "/", "/", "a", ":", "x", "/">>

\* URLs put together from a scheme, a host, what follows the host up to the
\* path (nothing, or ':' and a port text) and a path (possibly none).
Http == <<"h", "t", "t", "p">>

Ftp == <<"f", "t", "p">>

Schemes == {Http, Https, Ftp}

\* The decimal text of a natural number (what one writes after ':').
RECURSIVE DecimalText(_)
DecimalText(n) ==
    IF n < 10 THEN <<Digits[n + 1]>>
    ELSE DecimalText(n \div 10) \o <<Digits[(n % 10) + 1]>>

NoPort == <<>>

PortSuffix(text) == <<":">> \o text

PortNumbers == {0, 8, 65535, 65536}

\* Two ports, one after the other: the host part then holds two ':'.
TwoPorts == DecimalText(1) \o PortSuffix(DecimalText(2))

PortSuffixes ==
    {NoPort}
    \cup {PortSuffix(DecimalText(n)) : n \in PortNumbers}
    \cup {PortSuffix(<<"x">>), PortSuffix(<<>>), PortSuffix(TwoPorts)}

Paths == {<<>>, <<"/">>, <<"/", "x">>}

UrlOf(scheme, host, portSuffix, path) ==
    scheme \o SchemeSep \o host \o portSuffix \o path

\* Strings without "://".
NoSepUrls == {UrlNoSep, <<>>, <<"a", ":", "8", "/", "x">>,
              <<"h", "t", "t", "p", ":", "/", "a">>}

HostA == <<"a">>
HostB == <<"b">>

\* The hosts of the URLs above.
Hosts == {HostA, HostB}

Threads == {1, 2, 3}

NoThread == 0

\* What the transport answers to one attempt: an HTTP status code, or the
\* failure of one of its calls.
TransportErrors == {"timeout", "name_not_resolved", "cannot_connect",
                    "connection_error", "other_error"}

\* A response that starts as a success.
DefaultResponse_Status200 ==
    [status_code |-> 200, success |-> TRUE, error_message |-> <<>>, body |-> <<>>]

\* NetworkResponse response;  (the members' default initialisers)
DefaultResponse ==
    [status_code |-> 0, success |-> FALSE, error_message |-> <<>>, body |-> <<>>]

\* What happens to one round of the loop that reads the body: "data" (a chunk
\* is available and read), "read_fail" (a chunk is available, WinHttpReadData
\* fails), "query_fail" (WinHttpQueryDataAvailable fails), "end" (no more data).
ChunkKinds == {"data", "read_fail", "query_fail", "end"}

\* A response with the status code and a body whose reading goes as chunks says.
Answer(code, chunks) == [status |-> code, error |-> "none", chunks |-> chunks]

\* A RequestConfig and the arguments of one call.  script[i] is what the
\* transport answers to the i-th attempt of the call (the last entry again for
\* every attempt past the end).
Status(code) == Answer(code, <<"data">>)

Failure(e) == [status |-> 0, error |-> e, chunks |-> <<>>]

\* The transport call that never returns control to its caller.
NeverReturns == "never_returns"

\* enum class Method
Methods == {"HTTP_GET", "HTTP_POST", "HTTP_PUT", "HTTP_PATCH", "HTTP_DELETE"}

\* The keys of additional_headers that the callers set; a header that is not in
\* the map has the value Absent here.
HeaderNames == {"Authorization", "Content-Type"}

Absent == <<>>

NoHeaders == [n \in HeaderNames |-> Absent]

Bearer(token) == <<"Bearer ", token>>

\* The method and the members of RequestConfig that concern the headers and
\* the delay between attempts, and timeout_seconds with its default; api_key
\* and oauth_token are empty strings unless the caller sets them.
\* via: the function the caller called, Request itself or Post or Put, with
\* the content_type and the configuration it gave to these.
Direct == [name |-> "Request", content_type |-> <<>>, additional_headers |-> NoHeaders]

PlainConfig == [method |-> "HTTP_GET", api_key |-> <<>>, oauth_token |-> <<>>,
                additional_headers |-> NoHeaders, retry_delay_ms |-> 0,
                timeout_seconds |-> 30, via |-> Direct]

\* No call of WinHttpSetTimeouts was made for the request.
NoTimeouts == [set |-> FALSE, resolve |-> 0, connect |-> 0, send |-> 0, receive |-> 0]

PlainConfigs == {PlainConfig}

\* The credentials of the examples, and the Authorization entry that their
\* callers put into additional_headers themselves.
ApiKey == <<"test_key">>

OAuthToken == <<"your_oauth_token_here">>

OwnAuthorization == Bearer(ApiKey)

\* Every method with every combination of api_key, oauth_token and an
\* Authorization entry of additional_headers.
HeaderConfigs ==
    [method : Methods,
     api_key : {<<>>, ApiKey},
     oauth_token : {<<>>, OAuthToken},
     additional_headers : {[NoHeaders EXCEPT !["Authorization"] = a] :
                              a \in {Absent, OwnAuthorization}},
     retry_delay_ms : {PlainConfig.retry_delay_ms},
     timeout_seconds : {PlainConfig.timeout_seconds},
     via : {Direct}]

NoCall == [kind |-> "none", caller |-> 0, url |-> <<>>, rate_limit_per_minute |-> 0,
           max_retries |-> 0, script |-> <<Status(200)>>,
           method |-> PlainConfig.method, api_key |-> PlainConfig.api_key,
           oauth_token |-> PlainConfig.oauth_token,
           additional_headers |-> PlainConfig.additional_headers,
           retry_delay_ms |-> PlainConfig.retry_delay_ms,
           timeout_seconds |-> PlainConfig.timeout_seconds, via |-> Direct]

\* protocol, host, path, port: ParseUrl's results; pwszVerb, headers:
\* the verb and the headers handed to the transport; now, seenCount, seenLast: what ApplyRateLimit read
\* from the clock and from the host's entry; admission: what it decided;
\* slept: the milliseconds the call has spent waiting between attempts;
\* timeouts: what WinHttpSetTimeouts was called with.
NoLocals == [protocol |-> <<>>, host |-> <<>>, path |-> <<>>, port |-> 0,
             now |-> 0, seenCount |-> 0, seenLast |-> 0, admission |-> "none",
             pwszVerb |-> "", headers |-> NoHeaders, slept |-> 0,
             timeouts |-> NoTimeouts]

\* The handles of one call: how often each was opened (WinHttpConnect,
\* WinHttpOpenRequest returned it) and closed (WinHttpCloseHandle).
NoHandles == [connectOpened |-> 0, connectClosed |-> 0,
              requestOpened |-> 0, requestClosed |-> 0]

\* ------------------------------------------------------------------------
\* Network::UrlEncode.  A string is a sequence of bytes, 0..255.
\* ------------------------------------------------------------------------

\* No call of UrlEncode has returned.
NotEncoded == <<-1>>

\* std::isalnum(c) in the "C" locale, for the bytes 0..127.
IsAlnumAscii(b) == b \in (48..57) \cup (65..90) \cup (97..122)

\* std::isalnum(c) for a char c.  A byte above 127 is a negative char, which
\* std::isalnum is not defined for: it answers one way or the other (high).
IsAlnum(b, high) == IF b < 128 THEN IsAlnumAscii(b) ELSE high

\* The digits that std::hex writes.
HexDigits == <<48, 49, 50, 51, 52, 53, 54, 55, 56, 57, 97, 98, 99, 100, 101, 102>>

\* hex << std::hex << v for an int v >= 0: its digits, as many as it has.
RECURSIVE HexOf(_)
HexOf(v) ==
    IF v < 16 THEN <<HexDigits[v + 1]>>
    ELSE HexOf(v \div 16) \o <<HexDigits[(v % 16) + 1]>>

\* The loop of UrlEncode from position i on; high[i] is what std::isalnum
\* answers for input[i] where it is not defined.
RECURSIVE UrlEncodeFrom(_, _, _)
UrlEncodeFrom(in, high, i) ==
    IF i > Len(in) THEN <<>>
    ELSE LET c == in[i]
         IN  (IF IsAlnum(c, high[i]) \/ c \in {45, 95, 46, 126}
              THEN <<c>>
              ELSE <<37>> \o HexOf(c))
             \o UrlEncodeFrom(in, high, i + 1)

UrlEncode(in, high) == UrlEncodeFrom(in, high, 1)

\* "Hello World!"
HelloWorld == <<72, 101, 108, 108, 111, 32, 87, 111, 114, 108, 100, 33>>

\* H, z, 0, space, !, -, ~, /, line feed, and a byte above 127.
EncodeBytes == {72, 122, 48, 32, 33, 45, 126, 47, 10, 233}

EncodeInputs ==
    {HelloWorld} \cup UNION {[1..n -> EncodeBytes] : n \in 0..MaxInput}

\* ------------------------------------------------------------------------
\* WebSocket::Impl
\* ------------------------------------------------------------------------

\* The members of Config that Initialize reads: ping_interval_ms, and whether
\* subprotocol is empty.
WsConfigs == [ping_interval_ms : {0, 30000}, subprotocol : {<<>>, <<"chat">>}]

\* Impl(): state CLOSED, no handles, no threads (a std::thread is "none"
\* until a thread is assigned to it and again once it is joined).
NewImpl ==
    [state |-> "CLOSED", hSession |-> "NULL", hConnection |-> "NULL",
     hWebSocket |-> "NULL", receiveThread |-> "none", pingThread |-> "none",
     config |-> [ping_interval_ms |-> 0, subprotocol |-> <<>>]]

\* The steps of Initialize that can fail, in their order, and "none".
WsSteps == <<"parse", "session", "timeouts", "connection", "request", "header",
             "send", "receive", "upgrade">>

\* The caller of Connect and Disconnect: where it stands, what its last call
\* returned, the step at which the Connect under way fails, hRequest (the
\* local of Initialize), and the number of Connect calls made.
NoWsCall == [pc |-> "idle", result |-> "none", failAt |-> "none",
             hRequest |-> "NULL", connects |-> 0]

\* ------------------------------------------------------------------------
\* State
\* ------------------------------------------------------------------------

VARIABLES
    clock,          \* std::chrono::steady_clock, in milliseconds
    hSession,       \* Network::hSession: "NULL" or "OPEN"
    requestMutex,   \* Network::requestMutex: its owner, NoThread when free
    rateLimitMutex, \* Network::rateLimitMutex: its owner, NoThread when free
    rateLimitMap,   \* Network::rateLimitMap: host -> [lastRequest, requestCount]
    pc,             \* where each thread stands
    call,           \* the arguments of each thread's current (or last) call
    loc,            \* the locals of each thread's current call
    response,       \* the NetworkResponse of each thread's current (or last) call
    attempts,       \* transport attempts (WinHttpSendRequest) of that call
    outcome,        \* how each thread's last call ended: "none", "response", "exception"
    issued,         \* calls issued so far
    admitLog,       \* history: per host, the admission decisions of the last WindowMs
    limitsSeen,     \* history: per host, the limits ApplyRateLimit was called with
    callerState,    \* per thread started by RequestAsync: where its caller stands
    cbCount,        \* per thread started by RequestAsync: callback invocations
    aborted,        \* std::terminate was called
    handles,        \* per thread: the WinHTTP handles of its current call
    openSessions,   \* session handles opened and not closed
    history,        \* history: the call that ended last, when calls are noted
    input,          \* Network::UrlEncode: its argument, a sequence of bytes
    encoded,        \* Network::UrlEncode: what it returned, NotEncoded before
    impl,           \* WebSocket::Impl: state, config, the handles, the threads' joinability
    wsCaller,       \* the thread that calls Connect and Disconnect: where it stands
    wsThreads       \* where the receive thread and the ping thread stand

vars == <<clock, hSession, requestMutex, rateLimitMutex, rateLimitMap, pc, call,
          loc, response, attempts, outcome, issued, admitLog, limitsSeen,
          callerState, cbCount, aborted, handles, openSessions, history,
          input, encoded, impl, wsCaller, wsThreads>>

\* No call has ended yet.  on: whether the calls that end are noted.
NoHistory(on) ==
    [on |-> on, has |-> FALSE, call |-> NoCall, response |-> DefaultResponse,
     outcome |-> "none", session |-> "NULL", admission |-> "none"]

\* The call of thread t ends, with a response or with an exception.
Noted(h, t, how) ==
    IF h.on
    THEN [on |-> TRUE, has |-> TRUE, call |-> call[t], response |-> response[t],
          outcome |-> how, session |-> hSession, admission |-> loc[t].admission]
    ELSE h

\* The state after static initialisation: no session, both mutexes free, an
\* empty rate-limit table, no thread inside the library.
InitNetwork(noted) ==
    /\ clock = 0
    /\ hSession = "NULL"
    /\ requestMutex = NoThread
    /\ rateLimitMutex = NoThread
    /\ rateLimitMap = <<>>
    /\ pc = [t \in Threads |-> "idle"]
    /\ call = [t \in Threads |-> NoCall]
    /\ loc = [t \in Threads |-> NoLocals]
    /\ response = [t \in Threads |-> DefaultResponse]
    /\ attempts = [t \in Threads |-> 0]
    /\ outcome = [t \in Threads |-> "none"]
    /\ issued = 0
    /\ admitLog = [h \in Hosts |-> <<>>]
    /\ limitsSeen = [h \in Hosts |-> {}]
    /\ callerState = [t \in Threads |-> "none"]
    /\ cbCount = [t \in Threads |-> 0]
    /\ aborted = FALSE
    /\ handles = [t \in Threads |-> NoHandles]
    /\ openSessions = 0
    /\ history = NoHistory(noted)

\* UrlEncode was not called.
InitEncoder ==
    /\ input = <<>>
    /\ encoded = NotEncoded

\* A WebSocket object as its constructor leaves it.
InitWebSocket ==
    /\ impl = NewImpl
    /\ wsCaller = NoWsCall
    /\ wsThreads = [receive |-> "none", ping |-> "none"]

InitState(noted) == InitNetwork(noted) /\ InitEncoder /\ InitWebSocket

Init == InitState(FALSE)

\* The same state, with the calls that end noted in history.
InitNoted == InitState(TRUE)

\* ------------------------------------------------------------------------
\* The clock
\* ------------------------------------------------------------------------

\* History only: the decisions older than one window are dropped from admitLog.
Recent(log, now) == SelectSeq(log, LAMBDA e : e.time + WindowMs > now)

\* The clock advances by TickMs.  ApplyRateLimit's few instructions between
\* reading the clock and updating the entry take no time at this resolution.
Tick ==
    /\ ~aborted
    /\ clock < MaxTicks * TickMs
    /\ \A t \in Threads : pc[t] # "rl_decide"
    /\ clock' = clock + TickMs
    /\ admitLog' = [h \in Hosts |-> Recent(admitLog[h], clock')]
    /\ UNCHANGED <<hSession, requestMutex, rateLimitMutex, rateLimitMap, pc, call,
                   loc, response, attempts, outcome, issued, limitsSeen,
                   callerState, cbCount, aborted, handles, history, openSessions,
                   input, encoded, impl, wsCaller, wsThreads>>

\* ------------------------------------------------------------------------
\* Network::Initialize, Network::Cleanup
\* ------------------------------------------------------------------------

\* The whole of Initialize runs under sessionMutex, which nothing else but
\* Cleanup takes, so it is one step.  WinHttpOpen succeeds or returns NULL.
Initialize ==
    /\ ~aborted
    /\ \E opened \in BOOLEAN :
         hSession' = IF hSession # "NULL" THEN hSession
                     ELSE IF opened THEN "OPEN" ELSE "NULL"
    /\ hSession' # hSession
    /\ openSessions' = openSessions + 1
    /\ UNCHANGED <<clock, requestMutex, rateLimitMutex, rateLimitMap, pc, call,
                   loc, response, attempts, outcome, issued, admitLog,
                   limitsSeen, callerState, cbCount, aborted, handles, history,
                   input, encoded, impl, wsCaller, wsThreads>>

Cleanup ==
    /\ ~aborted
    /\ hSession # "NULL"
    /\ hSession' = "NULL"
    /\ openSessions' = openSessions - 1
    /\ UNCHANGED <<clock, requestMutex, rateLimitMutex, rateLimitMap, pc, call,
                   loc, response, attempts, outcome, issued, admitLog,
                   limitsSeen, callerState, cbCount, aborted, handles, history,
                   input, encoded, impl, wsCaller, wsThreads>>

\* The WinINet variant of Initialize: InternetOpen is called whether or not
\* hInternet holds a handle, and its result, a new handle or NULL, replaces
\* what hInternet held; the handle that was there stays open.
InitializeWinINet ==
    /\ ~aborted
    /\ openSessions < MaxSessions
    /\ \E opened \in BOOLEAN :
         /\ hSession' = IF opened THEN "OPEN" ELSE "NULL"
         /\ openSessions' = openSessions + (IF opened THEN 1 ELSE 0)
    /\ UNCHANGED <<clock, requestMutex, rateLimitMutex, rateLimitMap, pc, call,
                   loc, response, attempts, outcome, issued, admitLog,
                   limitsSeen, callerState, cbCount, aborted, handles, history,
                   input, encoded, impl, wsCaller, wsThreads>>

\* ------------------------------------------------------------------------
\* Network::UrlEncode, called
\* ------------------------------------------------------------------------

\* The state before a call of UrlEncode with one of the inputs.
InitEncode ==
    /\ InitNetwork(FALSE)
    /\ InitWebSocket
    /\ input \in EncodeInputs
    /\ encoded = NotEncoded

\* std::string Network::UrlEncode(const std::string& input)
UrlEncodeCall ==
    /\ encoded = NotEncoded
    /\ \E high \in [1..Len(input) -> BOOLEAN] : encoded' = UrlEncode(input, high)
    /\ UNCHANGED <<clock, hSession, requestMutex, rateLimitMutex, rateLimitMap, pc,
                   call, loc, response, attempts, outcome, issued, admitLog,
                   limitsSeen, callerState, cbCount, aborted, handles,
                   openSessions, history, input, impl, wsCaller, wsThreads>>

NextEncode == UrlEncodeCall

SpecEncode == InitEncode /\ [][NextEncode]_vars

\* ------------------------------------------------------------------------
\* WebSocket::Connect, WebSocket::Disconnect and the threads of a connection
\* ------------------------------------------------------------------------

netVars == <<clock, hSession, requestMutex, rateLimitMutex, rateLimitMap, pc,
             call, loc, response, attempts, outcome, issued, admitLog,
             limitsSeen, callerState, cbCount, aborted, handles, openSessions,
             history, input, encoded>>

\* Cleanup() for an object without joinable threads: the handles are closed
\* and the state is CLOSED.
Cleaned(object) ==
    [object EXCEPT !.state = "CLOSED", !.hWebSocket = "NULL",
                   !.hConnection = "NULL", !.hSession = "NULL"]

\* The object when Initialize returns false from step `at': the first two
\* steps return at once, the later ones call Cleanup() before.
AfterFailure(object, at) ==
    IF at \in {"parse", "session"} THEN object ELSE Cleaned(object)

\* WebSocket::Connect, first statements of Initialize: the config is stored
\* and the state is CONNECTING.  The call is made on an object that has no
\* threads; which step will fail is the environment's choice (the header is
\* added only for a subprotocol).
WsConnect ==
    /\ wsCaller.pc = "idle"
    /\ wsCaller.connects < MaxConnects
    /\ impl.receiveThread = "none"
    /\ impl.pingThread = "none"
    /\ \E c \in WsConfigs, f \in {WsSteps[i] : i \in 1..Len(WsSteps)} \cup {"none"} :
         /\ f = "header" => c.subprotocol # <<>>
         /\ impl' = [impl EXCEPT !.config = c, !.state = "CONNECTING"]
         /\ wsCaller' = [wsCaller EXCEPT !.pc = "initialize", !.failAt = f,
                                         !.result = "none", !.hRequest = "NULL",
                                         !.connects = @ + 1]
    /\ UNCHANGED <<netVars, wsThreads>>

\* The rest of Initialize: the URL, the session, its timeouts, the connection,
\* the request, the header, send, receive and the upgrade, up to the step that
\* fails; after the upgrade the state is CONNECTED and the threads are started.
WsInitialize ==
    /\ wsCaller.pc = "initialize"
    /\ LET f == wsCaller.failAt
           ping == impl.config.ping_interval_ms > 0
           FailsBefore(at, step) ==
               \E i \in 1..Len(WsSteps) : \E j \in 1..Len(WsSteps) :
                  WsSteps[i] = at /\ WsSteps[j] = step /\ i <= j
       IN  IF f = "none"
           THEN /\ impl' = [impl EXCEPT !.hSession = "OPEN", !.hConnection = "OPEN",
                                        !.hWebSocket = "OPEN", !.state = "CONNECTED",
                                        !.receiveThread = "joinable",
                                        !.pingThread = IF ping THEN "joinable" ELSE @]
                /\ wsThreads' = [receive |-> "loop",
                                 ping |-> IF ping THEN "loop" ELSE wsThreads.ping]
                /\ wsCaller' = [wsCaller EXCEPT !.pc = "idle", !.result = "connected",
                                                !.hRequest = "CLOSED"]
           ELSE /\ impl' = AfterFailure(impl, f)
                /\ wsCaller' = [wsCaller EXCEPT
                                  !.pc = "idle", !.result = "connect_failed",
                                  !.hRequest = IF FailsBefore(f, "request")
                                               THEN "NULL" ELSE "CLOSED"]
                /\ UNCHANGED wsThreads
    /\ UNCHANGED netVars

\* ReceiveLoop: while (state == State::CONNECTED)
WsReceiveLoop ==
    /\ wsThreads.receive = "loop"
    /\ wsThreads' = [wsThreads EXCEPT !.receive =
                        IF impl.state = "CONNECTED" THEN "receive" ELSE "done"]
    /\ UNCHANGED <<netVars, impl, wsCaller>>

\* WinHttpWebSocketReceive returns: the server has sent a message (the loop
\* goes on), or the receive failed (break).  Until then the thread waits.
WsReceiveReturns ==
    /\ wsThreads.receive = "receive"
    /\ \E ok \in BOOLEAN :
         wsThreads' = [wsThreads EXCEPT !.receive = IF ok THEN "loop" ELSE "done"]
    /\ UNCHANGED <<netVars, impl, wsCaller>>

\* PingLoop: while (state == State::CONNECTED), then sleep_for.
WsPingLoop ==
    /\ wsThreads.ping = "loop"
    /\ wsThreads' = [wsThreads EXCEPT !.ping =
                        IF impl.state = "CONNECTED" THEN "sleep" ELSE "done"]
    /\ UNCHANGED <<netVars, impl, wsCaller>>

\* The sleep ends: if (state != CONNECTED) break; else the ping is sent, and
\* the loop goes on unless the send failed.
WsPingWakes ==
    /\ wsThreads.ping = "sleep"
    /\ \E ok \in BOOLEAN :
         wsThreads' = [wsThreads EXCEPT !.ping =
                          IF impl.state = "CONNECTED" /\ ok THEN "loop" ELSE "done"]
    /\ UNCHANGED <<netVars, impl, wsCaller>>

\* state is a plain member that the threads read while Cleanup writes it:
\* a read may still give the value the thread read before, CONNECTED, and
\* the thread goes on as if connected.
WsStaleRead ==
    /\ impl.state # "CONNECTED"
    /\ \/ /\ wsThreads.receive = "loop"
          /\ wsThreads' = [wsThreads EXCEPT !.receive = "receive"]
       \/ /\ wsThreads.ping = "loop"
          /\ wsThreads' = [wsThreads EXCEPT !.ping = "sleep"]
       \/ /\ wsThreads.ping = "sleep"
          /\ \E ok \in BOOLEAN :
               wsThreads' = [wsThreads EXCEPT !.ping = IF ok THEN "loop" ELSE "done"]
    /\ UNCHANGED <<netVars, impl, wsCaller>>

\* WebSocket::Disconnect, first statement of Cleanup: state = CLOSING.
WsDisconnect ==
    /\ wsCaller.pc = "idle"
    /\ impl' = [impl EXCEPT !.state = "CLOSING"]
    /\ wsCaller' = [wsCaller EXCEPT !.pc = "join_receive"]
    /\ UNCHANGED <<netVars, wsThreads>>

\* if (receiveThread.joinable()) receiveThread.join();  join returns when the
\* thread has left ReceiveLoop.
WsJoinReceive ==
    /\ wsCaller.pc = "join_receive"
    /\ impl.receiveThread = "joinable" => wsThreads.receive = "done"
    /\ impl' = [impl EXCEPT !.receiveThread = "none"]
    /\ wsThreads' = [wsThreads EXCEPT !.receive = "none"]
    /\ wsCaller' = [wsCaller EXCEPT !.pc = "join_ping"]
    /\ UNCHANGED netVars

\* if (pingThread.joinable()) pingThread.join();
WsJoinPing ==
    /\ wsCaller.pc = "join_ping"
    /\ impl.pingThread = "joinable" => wsThreads.ping = "done"
    /\ impl' = [impl EXCEPT !.pingThread = "none"]
    /\ wsThreads' = [wsThreads EXCEPT !.ping = "none"]
    /\ wsCaller' = [wsCaller EXCEPT !.pc = "close"]
    /\ UNCHANGED netVars

\* The rest of Cleanup: the handles are closed, the state is CLOSED, and
\* Disconnect returns.
WsClose ==
    /\ wsCaller.pc = "close"
    /\ impl' = Cleaned(impl)
    /\ wsCaller' = [wsCaller EXCEPT !.pc = "idle", !.result = "disconnected"]
    /\ UNCHANGED <<netVars, wsThreads>>

\* What the program itself does once Disconnect was called: the steps of
\* Cleanup and of the two threads reading the state as written, but for the
\* return of a receive, which waits for the server.
WsProgress ==
    \/ WsReceiveLoop
    \/ WsPingLoop
    \/ WsPingWakes
    \/ WsJoinReceive
    \/ WsJoinPing
    \/ WsClose

NextWs ==
    \/ WsConnect
    \/ WsInitialize
    \/ WsDisconnect
    \/ WsReceiveReturns
    \/ WsStaleRead
    \/ WsProgress

SpecWs == Init /\ [][NextWs]_vars

\* The threads and the caller go on whenever they can, and a thread does not
\* read the earlier state for ever.
SpecWsLive == SpecWs /\ SF_vars(WsProgress)

\* ------------------------------------------------------------------------
\* std::mutex
\* ------------------------------------------------------------------------

\* A lock that excludes nobody.
CanLock_NoExclusion(owner) == owner \in Threads \cup {NoThread}

\* std::lock_guard's constructor returns only when no thread owns the mutex.
CanLock(owner) == owner = NoThread

\* ------------------------------------------------------------------------
\* Network::ApplyRateLimit
\* ------------------------------------------------------------------------

\* RateLimitBranch with the limit test off by one (> for >=).
RateLimitBranch_OffByOne(requestCount, lastRequest, now, rateLimit) ==
    IF requestCount = 0 THEN "first"
    ELSE IF now - lastRequest >= WindowMs THEN "reset"
    ELSE IF requestCount > rateLimit THEN "reject"
    ELSE "count"

\* RateLimitBranch with the limit tested before the age of the window.
RateLimitBranch_LimitFirst(requestCount, lastRequest, now, rateLimit) ==
    IF requestCount = 0 THEN "first"
    ELSE IF requestCount >= rateLimit THEN "reject"
    ELSE IF now - lastRequest >= WindowMs THEN "reset"
    ELSE "count"

\* What ApplyRateLimit does with the entry it found (requestCount, lastRequest)
\* at time now under the limit rateLimit: "first" and "reset" start a window,
\* "count" increments the counter, "reject" returns false.
RateLimitBranch(requestCount, lastRequest, now, rateLimit) ==
    IF requestCount = 0 THEN "first"
    ELSE IF now - lastRequest >= WindowMs THEN "reset"
    ELSE IF requestCount >= rateLimit THEN "reject"
    ELSE "count"

\* EntryAfter that counts the rejected requests too.
EntryAfter_CountsRejected(branch, requestCount, lastRequest, now) ==
    CASE branch \in {"first", "reset"} -> [lastRequest |-> now, requestCount |-> 1]
      [] OTHER -> [lastRequest |-> lastRequest, requestCount |-> requestCount + 1]

\* The entry as ApplyRateLimit leaves it: a new window, one more request in
\* the running one, or, on a rejection, what it was.
EntryAfter(branch, requestCount, lastRequest, now) ==
    CASE branch \in {"first", "reset"} -> [lastRequest |-> now, requestCount |-> 1]
      [] branch = "count" -> [lastRequest |-> lastRequest, requestCount |-> requestCount + 1]
      [] OTHER -> [lastRequest |-> lastRequest, requestCount |-> requestCount]

\* if (rateLimit <= 0) return true;  and, in Request,
\* config.rate_limit_per_minute > 0 && !ApplyRateLimit(...): the limiter that
\* also counts under the limit 0.
RateLimitEnabled_FromZero(rateLimit) == rateLimit >= 0

\* Whether a call with this rate_limit_per_minute goes through the limiter.
RateLimitEnabled(rateLimit) == rateLimit > 0

\* An entry for each URL.
RateLimitKey_HostAndPath(host, path) == host \o path

\* ApplyRateLimit(host, ...), rateLimitMap[host]: the key of the entry.
RateLimitKey(host, path) == host

\* The epoch: a value-initialised time_point (rateLimitMap[host] inserts a
\* value-initialised RateLimitInfo when the host has no entry).
NewEntry == [lastRequest |-> 0, requestCount |-> 0]

EntryOf(map, host) == IF host \in DOMAIN map THEN map[host] ELSE NewEntry

\* A message that tells how many calls were made so far.
RateLimitMessage_Counted(host) ==
    <<"Rate limit exceeded for host: ">> \o host \o <<Digits[issued + 1]>>

RateLimitMessage(host) ==
    <<"Rate limit exceeded for host: ">> \o host \o <<". Please wait before retrying.">>

\* ------------------------------------------------------------------------
\* The transport (WinHTTP), as the call sees it
\* ------------------------------------------------------------------------

ScriptAt(script, i) == script[IF i > Len(script) THEN Len(script) ELSE i]

\* The switch without its case for ERROR_WINHTTP_TIMEOUT.
ErrorText_NoTimeoutCase(e) ==
    CASE e = "name_not_resolved" -> <<"DNS name resolution failed">>
      [] e = "cannot_connect"    -> <<"Failed to connect to server">>
      [] e = "connection_error"  -> <<"Connection was terminated">>
      [] OTHER                   -> <<"Request failed with error code: ", e>>

\* The switch on GetLastError() after a failed send or receive.
ErrorText(e) ==
    CASE e = "timeout"           -> <<"Request timed out">>
      [] e = "name_not_resolved" -> <<"DNS name resolution failed">>
      [] e = "cannot_connect"    -> <<"Failed to connect to server">>
      [] e = "connection_error"  -> <<"Connection was terminated">>
      [] OTHER                   -> <<"Request failed with error code: ", e>>

\* Success up to the redirects.
IsSuccess_Below400(statusCode) == statusCode >= 200 /\ statusCode < 400

\* response.success = (statusCode >= 200 && statusCode < 300);
IsSuccess(statusCode) == statusCode >= 200 /\ statusCode < 300

\* ------------------------------------------------------------------------
\* Network::Request
\* ------------------------------------------------------------------------

\* Thread t calls Request (kind "sync"), or is the thread RequestAsync started
\* for caller c (kind "async"), with a URL, a configuration and a transport
\* script drawn from the given sets.
Enter(t, kind, c, Urls, Limits, Retries, Scripts, Configs) ==
    /\ issued < MaxCalls
    /\ issued' = issued + 1
    /\ \E u \in Urls, n \in Limits, r \in Retries, s \in Scripts, x \in Configs :
         call' = [call EXCEPT ![t] =
                    [kind |-> kind, caller |-> c, url |-> u,
                     rate_limit_per_minute |-> n, max_retries |-> r,
                     script |-> s, method |-> x.method, api_key |-> x.api_key,
                     oauth_token |-> x.oauth_token,
                     additional_headers |-> x.additional_headers,
                     retry_delay_ms |-> x.retry_delay_ms,
                     timeout_seconds |-> x.timeout_seconds, via |-> x.via]]
    /\ loc' = [loc EXCEPT ![t] = NoLocals]
    /\ response' = [response EXCEPT ![t] = DefaultResponse]
    /\ attempts' = [attempts EXCEPT ![t] = 0]
    /\ outcome' = [outcome EXCEPT ![t] = "none"]
    /\ handles' = [handles EXCEPT ![t] = NoHandles]

Request(t, Urls, Limits, Retries, Scripts, Configs) ==
    /\ ~aborted
    /\ pc[t] = "idle"
    /\ Enter(t, "sync", t, Urls, Limits, Retries, Scripts, Configs)
    /\ pc' = [pc EXCEPT ![t] = "req_lock"]
    /\ UNCHANGED <<clock, hSession, requestMutex, rateLimitMutex, rateLimitMap,
                   admitLog, limitsSeen, callerState, cbCount, aborted, history, openSessions,
                   input, encoded, impl, wsCaller, wsThreads>>

\* RequestConfig cfg = config; cfg.additional_headers["Content-Type"] =
\* content_type; and the method of the wrapper: what Post and Put hand to
\* Request.  The caller's config is a const reference and stays as it is.
WrapperConfig(name, method, config, content_type) ==
    [config EXCEPT !.method = method,
                   !.additional_headers["Content-Type"] = content_type,
                   !.via = [name |-> name, content_type |-> content_type,
                            additional_headers |-> config.additional_headers]]

\* Network::Post(url, payload, content_type, config)
Post(t, Urls, Limits, Retries, Scripts, Configs, ContentTypes) ==
    \E x \in Configs, ct \in ContentTypes :
       Request(t, Urls, Limits, Retries, Scripts,
               {WrapperConfig("Post", "HTTP_POST", x, ct)})

\* Network::Put(url, payload, content_type, config)
Put(t, Urls, Limits, Retries, Scripts, Configs, ContentTypes) ==
    \E x \in Configs, ct \in ContentTypes :
       Request(t, Urls, Limits, Retries, Scripts,
               {WrapperConfig("Put", "HTTP_PUT", x, ct)})

\* std::lock_guard<std::mutex> lock(requestMutex);
ReqLock(t) ==
    /\ ~aborted
    /\ pc[t] = "req_lock"
    /\ CanLock(requestMutex)
    /\ requestMutex' = t
    /\ pc' = [pc EXCEPT ![t] = "req_parse"]
    /\ UNCHANGED <<clock, hSession, rateLimitMutex, rateLimitMap, call, loc,
                   response, attempts, outcome, issued, admitLog, limitsSeen,
                   callerState, cbCount, aborted, handles, history, openSessions,
                   input, encoded, impl, wsCaller, wsThreads>>

\* ParseUrl and the test of config.rate_limit_per_minute.  An exception of
\* std::stoi leaves Request (the lock_guard releases requestMutex): it reaches
\* the caller of a synchronous call, and calls std::terminate when it leaves
\* the function of the thread RequestAsync started.
ReqParse(t) ==
    /\ ~aborted
    /\ pc[t] = "req_parse"
    /\ LET p == ParseUrl(call[t].url)
       IN  IF p.throws # "none"
           THEN /\ requestMutex' = NoThread
                /\ outcome' = [outcome EXCEPT ![t] = "exception"]
                /\ aborted' = (call[t].kind = "async")
                /\ pc' = [pc EXCEPT ![t] =
                            IF call[t].kind = "async" THEN "terminated" ELSE "idle"]
                /\ call' = [call EXCEPT ![t] =
                              IF call[t].kind = "async" THEN @ ELSE NoCall]
                /\ history' = Noted(history, t, "exception")
                /\ UNCHANGED <<loc, response>>
           ELSE IF ~p.ok
           THEN /\ response' = [response EXCEPT ![t] =
                       [@ EXCEPT !.success = FALSE,
                                 !.error_message = <<"Invalid URL">>]]
                /\ pc' = [pc EXCEPT ![t] = "ret"]
                /\ UNCHANGED <<requestMutex, outcome, aborted, loc, call, history>>
           ELSE /\ loc' = [loc EXCEPT ![t].protocol = p.protocol,
                                      ![t].host = p.host,
                                      ![t].path = p.path,
                                      ![t].port = p.port]
                /\ pc' = [pc EXCEPT ![t] =
                            IF RateLimitEnabled(call[t].rate_limit_per_minute)
                            THEN "rl_lock" ELSE "connect"]
                /\ UNCHANGED <<requestMutex, outcome, aborted, response, call, history>>
    /\ UNCHANGED <<clock, hSession, rateLimitMutex, rateLimitMap, attempts,
                   issued, admitLog, limitsSeen, callerState, cbCount, handles, openSessions,
                   input, encoded, impl, wsCaller, wsThreads>>

\* ApplyRateLimit, first half: the lock_guard on rateLimitMutex, the clock, and
\* rateLimitMap[host] (which inserts the entry when there is none).
RlLock(t) ==
    /\ ~aborted
    /\ pc[t] = "rl_lock"
    /\ CanLock(rateLimitMutex)
    /\ rateLimitMutex' = t
    /\ LET h == RateLimitKey(loc[t].host, loc[t].path)
           e == EntryOf(rateLimitMap, h)
       IN  /\ rateLimitMap' = IF h \in DOMAIN rateLimitMap THEN rateLimitMap
                              ELSE rateLimitMap @@ (h :> NewEntry)
           /\ loc' = [loc EXCEPT ![t].now = clock,
                                 ![t].seenCount = e.requestCount,
                                 ![t].seenLast = e.lastRequest]
    /\ pc' = [pc EXCEPT ![t] = "rl_decide"]
    /\ UNCHANGED <<clock, hSession, requestMutex, call, response, attempts,
                   outcome, issued, admitLog, limitsSeen, callerState, cbCount,
                   aborted, handles, history, openSessions,
                   input, encoded, impl, wsCaller, wsThreads>>

\* ApplyRateLimit, second half: the decision, the update of the entry, the
\* release of rateLimitMutex, and in Request the 429 response on a rejection.
RlDecide(t) ==
    /\ ~aborted
    /\ pc[t] = "rl_decide"
    /\ LET h == RateLimitKey(loc[t].host, loc[t].path)
           n == call[t].rate_limit_per_minute
           b == RateLimitBranch(loc[t].seenCount, loc[t].seenLast, loc[t].now, n)
       IN  /\ rateLimitMap' =
                [rateLimitMap EXCEPT ![h] =
                   EntryAfter(b, loc[t].seenCount, loc[t].seenLast, loc[t].now)]
           /\ loc' = [loc EXCEPT ![t].admission =
                        IF b = "reject" THEN "rejected" ELSE "admitted"]
           /\ admitLog' = [admitLog EXCEPT ![h] =
                             Append(@, [time |-> loc[t].now, admitted |-> b # "reject"])]
           /\ limitsSeen' = [limitsSeen EXCEPT ![h] = @ \cup {n}]
           /\ IF b = "reject"
              THEN /\ response' = [response EXCEPT ![t] =
                          [@ EXCEPT !.success = FALSE,
                                    !.error_message = RateLimitMessage(loc[t].host),
                                    !.status_code = TooManyRequests]]
                   /\ pc' = [pc EXCEPT ![t] = "ret"]
              ELSE /\ pc' = [pc EXCEPT ![t] = "connect"]
                   /\ UNCHANGED response
    /\ rateLimitMutex' = NoThread
    /\ UNCHANGED <<clock, hSession, requestMutex, call, attempts, outcome, issued,
                   callerState, cbCount, aborted, handles, history, openSessions,
                   input, encoded, impl, wsCaller, wsThreads>>

\* WinHttpConnect that returns a handle whatever the session.
ConnectReturnsHandle_Always(session) == TRUE

\* WinHttpConnect(hSession, ...): a handle, NULL without a session.
ConnectReturnsHandle(session) == session = "OPEN"

ReqConnect(t) ==
    /\ ~aborted
    /\ pc[t] = "connect"
    /\ IF ConnectReturnsHandle(hSession)
       THEN /\ pc' = [pc EXCEPT ![t] = "transport"]
            /\ handles' = [handles EXCEPT ![t].connectOpened = @ + 1]
            /\ UNCHANGED response
       ELSE /\ response' = [response EXCEPT ![t].error_message = <<"Failed to connect">>]
            /\ pc' = [pc EXCEPT ![t] = "ret"]
            /\ UNCHANGED handles
    /\ UNCHANGED <<clock, hSession, requestMutex, rateLimitMutex, rateLimitMap,
                   call, loc, attempts, outcome, issued, admitLog, limitsSeen,
                   callerState, cbCount, aborted, history, openSessions,
                   input, encoded, impl, wsCaller, wsThreads>>

\* The loop that reads the body, from round i on with acc read so far: it ends
\* when WinHttpQueryDataAvailable fails or reports no data, and goes on to the
\* next round after a chunk, read or not (a failed WinHttpReadData appends
\* nothing).  Past the end of chunks the transport has no more data.
RECURSIVE ReadBody(_, _, _)
ReadBody(chunks, i, acc) ==
    IF i > Len(chunks) \/ chunks[i] \in {"query_fail", "end"} THEN acc
    ELSE ReadBody(chunks, i + 1,
                  IF chunks[i] = "data" THEN Append(acc, "data") ELSE acc)

\* switch (method): pwszVerb.
Verb(method) ==
    CASE method = "HTTP_GET"    -> "GET"
      [] method = "HTTP_POST"   -> "POST"
      [] method = "HTTP_PUT"    -> "PUT"
      [] method = "HTTP_DELETE" -> "DELETE"
      [] OTHER                  -> "GET"

\* The headers added to the request: one line for each entry of
\* config.additional_headers, and nothing else.
RequestHeaders(c) == c.additional_headers

\* The low 32 bits of seconds * 1000, computed on the two halves of seconds
\* (the numbers here are below 2^31: those with the top bit set are left out).
Low32OfMs(seconds) ==
    LET high == seconds \div HalfWord
        low == seconds % HalfWord
    IN  (((high * 1000 + ((low * 1000) \div HalfWord)) % HalfWord) * HalfWord)
           + ((low * 1000) % HalfWord)

\* DWORD timeout = config.timeout_seconds * 1000: the product of two int.  When
\* it is beyond int the multiplication overflows, which is undefined: the
\* low 32 bits of the product, or any other DWORD (the smallest one and the
\* largest int stand for them).
TimeoutMs(seconds) ==
    IF seconds <= IntMax \div 1000
    THEN {seconds * 1000}
    ELSE {Low32OfMs(seconds), 0, IntMax}

\* if (config.timeout_seconds > 0): the arguments of WinHttpSetTimeouts.
SetTimeouts(seconds, timeout) ==
    IF seconds > 0
    THEN [set |-> TRUE,
          resolve |-> IF timeout \div 4 > 15000 THEN 15000 ELSE timeout \div 4,
          connect |-> IF timeout \div 2 > 30000 THEN 30000 ELSE timeout \div 2,
          send |-> timeout,
          receive |-> timeout]
    ELSE NoTimeouts

\* The handles closed on the way out, by nobody.
CloseHandles_Leak(h, exit) == h

\* The WinHttpCloseHandle calls before each return of Request that follows
\* WinHttpConnect: hConnect alone when WinHttpOpenRequest failed, hRequest and
\* hConnect after a failed send or receive and at the end.
CloseHandles(h, exit) ==
    IF exit = "open_request_failed"
    THEN [h EXCEPT !.connectClosed = @ + 1]
    ELSE [h EXCEPT !.requestClosed = @ + 1, !.connectClosed = @ + 1]

\* WinHttpOpenRequest, the timeouts and headers, WinHttpSendRequest and
\* WinHttpReceiveResponse, the status code, the headers and the body, and the
\* closing of the handles: the one transport attempt of the call.  Request
\* waits in WinHttpSendRequest / WinHttpReceiveResponse until the transport
\* returns; nothing else ends the wait.
ReqTransport(t) ==
    /\ ~aborted
    /\ pc[t] = "transport"
    /\ LET o == ScriptAt(call[t].script, attempts[t] + 1)
       IN  /\ o.error # NeverReturns
           /\ \E timeout \in TimeoutMs(call[t].timeout_seconds) :
                loc' = [loc EXCEPT ![t].pwszVerb = Verb(call[t].method),
                                  ![t].headers = IF o.error = "open_request"
                                                 THEN @ ELSE RequestHeaders(call[t]),
                                  ![t].timeouts =
                                     IF o.error = "open_request" THEN @
                                     ELSE SetTimeouts(call[t].timeout_seconds, timeout)]
           /\ IF o.error = "open_request"
              THEN /\ response' = [response EXCEPT ![t].error_message =
                                      <<"Failed to create request">>]
                   /\ handles' = [handles EXCEPT ![t] =
                                    CloseHandles(@, "open_request_failed")]
                   /\ UNCHANGED attempts
              ELSE /\ attempts' = [attempts EXCEPT ![t] = @ + 1]
                   /\ response' = [response EXCEPT ![t] =
                        IF o.error # "none"
                        THEN [@ EXCEPT !.error_message = ErrorText(o.error),
                                       !.success = FALSE,
                                       !.status_code = 0]
                        ELSE [@ EXCEPT !.status_code = o.status,
                                       !.body = ReadBody(o.chunks, 1, <<>>),
                                       !.success = IsSuccess(o.status)]]
                   /\ handles' = [handles EXCEPT ![t] =
                        CloseHandles([@ EXCEPT !.requestOpened = @ + 1],
                                     IF o.error # "none" THEN "send_failed"
                                     ELSE "completed")]
    /\ pc' = [pc EXCEPT ![t] = "ret"]
    /\ UNCHANGED <<clock, hSession, requestMutex, rateLimitMutex, rateLimitMap,
                   call, outcome, issued, admitLog, limitsSeen, callerState,
                   cbCount, aborted, history, openSessions,
                   input, encoded, impl, wsCaller, wsThreads>>

\* return response;  (the lock_guard releases requestMutex).  The response is
\* the value of `response' in the state where pc[t] = "ret"; the caller of a
\* synchronous call is idle again afterwards and its locals are gone.
ReqReturn(t) ==
    /\ ~aborted
    /\ pc[t] = "ret"
    /\ requestMutex' = NoThread
    /\ outcome' = [outcome EXCEPT ![t] = "response"]
    /\ history' = Noted(history, t, "response")
    /\ IF call[t].kind = "async"
       THEN /\ pc' = [pc EXCEPT ![t] = "callback"]
            /\ UNCHANGED <<call, loc, response, attempts, handles>>
       ELSE /\ pc' = [pc EXCEPT ![t] = "idle"]
            /\ handles' = [handles EXCEPT ![t] = NoHandles]
            /\ call' = [call EXCEPT ![t] = NoCall]
            /\ loc' = [loc EXCEPT ![t] = NoLocals]
            /\ response' = [response EXCEPT ![t] = DefaultResponse]
            /\ attempts' = [attempts EXCEPT ![t] = 0]
    /\ UNCHANGED <<clock, hSession, rateLimitMutex, rateLimitMap, issued,
                   admitLog, limitsSeen, callerState, cbCount, aborted, openSessions,
                   input, encoded, impl, wsCaller, wsThreads>>

\* ------------------------------------------------------------------------
\* Network::RequestAsync
\* ------------------------------------------------------------------------

\* std::thread([=]() { ... }): thread w starts and enters Request, while the
\* caller c is still inside RequestAsync.
RequestAsync(c, w, Urls, Limits, Retries, Scripts, Configs) ==
    /\ ~aborted
    /\ c # w
    /\ pc[c] = "idle"
    /\ pc[w] = "idle"
    /\ Enter(w, "async", c, Urls, Limits, Retries, Scripts, Configs)
    /\ pc' = [pc EXCEPT ![c] = "async_detach", ![w] = "req_lock"]
    /\ callerState' = [callerState EXCEPT ![w] = "in_call"]
    /\ UNCHANGED <<clock, hSession, requestMutex, rateLimitMutex, rateLimitMap,
                   admitLog, limitsSeen, cbCount, aborted, history, openSessions,
                   input, encoded, impl, wsCaller, wsThreads>>

\* .detach(); and the return of RequestAsync to its caller.
AsyncReturn(c) ==
    /\ ~aborted
    /\ pc[c] = "async_detach"
    /\ pc' = [pc EXCEPT ![c] = "idle"]
    /\ callerState' = [w \in Threads |->
                         IF callerState[w] = "in_call" /\ call[w].caller = c
                         THEN "returned" ELSE callerState[w]]
    /\ UNCHANGED <<clock, hSession, requestMutex, rateLimitMutex, rateLimitMap,
                   call, loc, response, attempts, outcome, issued, admitLog,
                   limitsSeen, cbCount, aborted, handles, history, openSessions,
                   input, encoded, impl, wsCaller, wsThreads>>

\* callback(response); and the end of the thread.
AsyncCallback(w) ==
    /\ ~aborted
    /\ pc[w] = "callback"
    /\ cbCount' = [cbCount EXCEPT ![w] = @ + 1]
    /\ pc' = [pc EXCEPT ![w] = "exited"]
    /\ UNCHANGED <<clock, hSession, requestMutex, rateLimitMutex, rateLimitMap,
                   call, loc, response, attempts, outcome, issued, admitLog,
                   limitsSeen, callerState, aborted, handles, history, openSessions,
                   input, encoded, impl, wsCaller, wsThreads>>

\* ------------------------------------------------------------------------
\* Specifications
\* ------------------------------------------------------------------------

OkScript == {<<Status(200)>>}

\* One thread issuing rate-limited requests one after the other while the
\* clock advances.
RateUrls == {UrlA, UrlAPath, UrlNoSep}

NextRate ==
    \/ Tick
    \/ Initialize
    \/ Request(1, RateUrls, (-1)..MaxLimit, {0}, OkScript, PlainConfigs)
    \/ ReqLock(1)
    \/ ReqParse(1)
    \/ RlLock(1)
    \/ RlDecide(1)
    \/ ReqConnect(1)
    \/ ReqTransport(1)
    \/ ReqReturn(1)

SpecRate == Init /\ [][NextRate]_vars

\* Two threads calling Request at the same time (testConcurrentRequests), with a
\* rate limit.
ConcThreads == {1, 2}

ConcUrls == {UrlA, UrlAPath}

NextConc ==
    \/ Tick
    \/ Initialize
    \/ \E t \in ConcThreads :
         \/ Request(t, ConcUrls, 1..MaxLimit, {0}, OkScript, PlainConfigs)
         \/ ReqLock(t)
         \/ ReqParse(t)
         \/ RlLock(t)
         \/ RlDecide(t)
         \/ ReqConnect(t)
         \/ ReqTransport(t)
         \/ ReqReturn(t)

SpecConc == Init /\ [][NextConc]_vars

\* One caller issuing RequestAsync calls (and nothing else); each starts a thread.
AsyncCaller == 1

AsyncWorkers == {2, 3}

AsyncUrls == {UrlA, UrlNoSep, UrlBadPort}

AsyncScripts == {<<Status(200)>>, <<Status(500)>>, <<Failure("timeout")>>}

NextAsync ==
    \/ Initialize
    \/ \E w \in AsyncWorkers :
         \/ RequestAsync(AsyncCaller, w, AsyncUrls, {0, 1}, {0}, AsyncScripts, PlainConfigs)
         \/ ReqLock(w)
         \/ ReqParse(w)
         \/ RlLock(w)
         \/ RlDecide(w)
         \/ ReqConnect(w)
         \/ ReqTransport(w)
         \/ ReqReturn(w)
         \/ AsyncCallback(w)
    \/ AsyncReturn(AsyncCaller)

SpecAsync == Init /\ [][NextAsync]_vars

\* One thread issuing requests, with retries configured, against a transport
\* that answers the successive attempts of a call as a script says.
RetryOutcomes == {Status(200), Status(302), Status(404), Status(500), Status(503),
                  Failure("timeout"), Failure("open_request")}

RetryScripts ==
    UNION {[1..n -> RetryOutcomes] : n \in 1..MaxScript}

\* retry_delay_ms as the callers set it, and left at 0.
RetryDelays == {0, 1000}

RetryConfigs == {[PlainConfig EXCEPT !.retry_delay_ms = d] : d \in RetryDelays}

NextRetry ==
    \/ Initialize
    \/ Cleanup
    \/ Request(1, {UrlA}, {0}, 0..MaxRetries, RetryScripts, RetryConfigs)
    \/ ReqLock(1)
    \/ ReqParse(1)
    \/ ReqConnect(1)
    \/ ReqTransport(1)
    \/ ReqReturn(1)

SpecRetry == Init /\ [][NextRetry]_vars

\* The steps of thread t inside Request.
RequestSteps(t) ==
    \/ ReqLock(t)
    \/ ReqParse(t)
    \/ RlLock(t)
    \/ RlDecide(t)
    \/ ReqConnect(t)
    \/ ReqTransport(t)
    \/ ReqReturn(t)

\* One thread issuing requests against a transport that fails in every way the
\* code distinguishes, or answers with a status and a body read in chunks.
TransportStatuses == {200, 302, 404, 500}

TransportChunks == UNION {[1..n -> ChunkKinds] : n \in 0..MaxChunks}

TransportScripts ==
    {<<Answer(c, ch)>> : c \in TransportStatuses, ch \in TransportChunks}
    \cup {<<Failure(e)>> : e \in TransportErrors \cup {"open_request"}}

TransportUrls == {UrlA, UrlNoSep}

NextTransport ==
    \/ Initialize
    \/ Cleanup
    \/ Request(1, TransportUrls, {0, 1}, {0}, TransportScripts, PlainConfigs)
    \/ RequestSteps(1)

SpecTransport == Init /\ [][NextTransport]_vars

\* One thread issuing requests with a timeout configured, against a transport
\* that answers, reports the timeout, or never returns.  A thread inside Request
\* goes on whenever it can take a step.
LiveScripts == {<<Status(200)>>, <<Status(500)>>, <<Failure("timeout")>>,
                <<Failure(NeverReturns)>>}

NextLive ==
    \/ Initialize
    \/ Request(1, TransportUrls, {0, 1}, {0}, LiveScripts, PlainConfigs)
    \/ RequestSteps(1)

SpecLive == Init /\ [][NextLive]_vars /\ WF_vars(RequestSteps(1))

\* One thread issuing requests for URLs of every shape.
UrlInputs ==
    {UrlOf(s, h, ps, p) : s \in Schemes, h \in Hosts, ps \in PortSuffixes, p \in Paths}
    \cup NoSepUrls

NextUrl ==
    \/ Initialize
    \/ Request(1, UrlInputs, {0, 1}, {0}, OkScript, PlainConfigs)
    \/ RequestSteps(1)

SpecUrl == Init /\ [][NextUrl]_vars

\* One thread issuing requests of every method with and without credentials
\* against a server that answers 200.
NextHeaders ==
    \/ Initialize
    \/ Request(1, {UrlA}, {0, 1}, {0}, OkScript, HeaderConfigs)
    \/ RequestSteps(1)

SpecHeaders == Init /\ [][NextHeaders]_vars

\* The WinINet variant's Initialize and Cleanup around the requests of one
\* thread, which are not rate limited.
NextWinINet ==
    \/ InitializeWinINet
    \/ Cleanup
    \/ Request(1, TransportUrls, {0}, {0}, OkScript, PlainConfigs)
    \/ ReqLock(1)
    \/ ReqParse(1)
    \/ ReqConnect(1)
    \/ ReqTransport(1)
    \/ ReqReturn(1)

SpecWinINet == Init /\ [][NextWinINet]_vars

\* One thread whose calls follow one another: Initialize and Cleanup are called
\* between two requests, the clock advances, and the call that returned last
\* is noted.
SeqUrls == {UrlA, UrlNoSep}

SeqScripts == {<<Status(200)>>, <<Failure("timeout")>>}

NextSeq ==
    \/ Tick
    \/ (pc[1] = "idle" /\ Initialize)
    \/ (pc[1] = "idle" /\ Cleanup)
    \/ Request(1, SeqUrls, {0, 1}, {0}, SeqScripts, PlainConfigs)
    \/ RequestSteps(1)

SpecSeq == InitNoted /\ [][NextSeq]_vars

\* timeout_seconds unset, at its default, around the value where the caps of
\* the sub-timeouts begin, the largest whose milliseconds are an int, and one
\* of the larger ones.
TimeoutSeconds == {-1, 0, 1, 30, 59, 60, 61, 2147483, 4294968}

TimeoutConfigs == {[PlainConfig EXCEPT !.timeout_seconds = s] : s \in TimeoutSeconds}

\* One thread issuing requests with every timeout_seconds.
NextTimeouts ==
    \/ Initialize
    \/ Request(1, {UrlA}, {0, 1}, {0}, OkScript, TimeoutConfigs)
    \/ RequestSteps(1)

SpecTimeouts == Init /\ [][NextTimeouts]_vars

\* The content_type arguments of the examples: none (""), and JSON.
EmptyString == <<"">>

ContentTypes == {EmptyString, <<"application/json">>}

\* Configurations with and without a Content-Type of their own.
PostConfigs ==
    {[PlainConfig EXCEPT !.additional_headers["Content-Type"] = v] :
        v \in {Absent, <<"multipart/form-data; boundary=",
                         "------------------------boundary123456789">>}}

\* One thread that posts and puts.
NextPost ==
    \/ Initialize
    \/ Post(1, {UrlA}, {0, 1}, {0}, OkScript, PostConfigs, ContentTypes)
    \/ Put(1, {UrlA}, {0, 1}, {0}, OkScript, PostConfigs, ContentTypes)
    \/ RequestSteps(1)

SpecPost == Init /\ [][NextPost]_vars

\* A caller that starts asynchronous requests and calls Initialize and Cleanup
\* while the threads of these requests run.
NextCleanup ==
    \/ Initialize
    \/ Cleanup
    \/ AsyncReturn(AsyncCaller)
    \/ \E w \in AsyncWorkers :
         \/ RequestAsync(AsyncCaller, w, {UrlA}, {0, 1}, {0}, OkScript, PlainConfigs)
         \/ RequestSteps(w)
         \/ AsyncCallback(w)

SpecCleanup == Init /\ [][NextCleanup]_vars

\* Rate-limited requests of two threads, one asking for two paths of a host and
\* the other for another host; the call that returned last is noted.
HostUrls == [t \in ConcThreads |-> IF t = 1 THEN {UrlA, UrlAPath} ELSE {UrlB}]

NextHosts ==
    \/ Initialize
    \/ \E t \in ConcThreads :
         \/ Request(t, HostUrls[t], 1..MaxLimit, {0}, OkScript, PlainConfigs)
         \/ RequestSteps(t)

SpecHosts == InitNoted /\ [][NextHosts]_vars

\* ------------------------------------------------------------------------
\* Rate limiting: C1, C2, C3
\* ------------------------------------------------------------------------

\* The host has an entry whose window, started at lastRequest, is still running.
InWindow(h) ==
    /\ h \in DOMAIN rateLimitMap
    /\ rateLimitMap[h].requestCount > 0
    /\ clock - rateLimitMap[h].lastRequest < WindowMs

\* The admission decisions taken for the host since its window started, in order.
WindowLog(h) ==
    SelectSeq(admitLog[h], LAMBDA e : e.time >= rateLimitMap[h].lastRequest)

AdmittedIn(log) == Cardinality({i \in 1..Len(log) : log[i].admitted})

\* C1: reject mode.  For a host whose requests all carry the same limit N >= 1,
\* of the M requests that reached the limiter since the running window started
\* the first min(M, N) were admitted and every later one was rejected; a
\* rejected request returns status 429 with success = false and has made no
\* transport attempt, and only a request that was not rejected goes on to the
\* transport.
C1_RejectModeAdmission ==
    /\ \A h \in Hosts : \A N \in 1..MaxLimit :
         (limitsSeen[h] = {N} /\ InWindow(h)) =>
            LET L == WindowLog(h)
            IN  /\ \A i \in 1..Len(L) : L[i].admitted <=> (i <= N)
                /\ AdmittedIn(L) = IF Len(L) < N THEN Len(L) ELSE N
    /\ \A t \in Threads :
         /\ (pc[t] = "ret" /\ loc[t].admission = "rejected") =>
               /\ response[t].status_code = 429
               /\ response[t].success = FALSE
               /\ attempts[t] = 0
         /\ pc[t] \in {"connect", "transport"} => loc[t].admission # "rejected"
         /\ (pc[t] = "ret" /\ attempts[t] > 0 /\ call[t].rate_limit_per_minute > 0)
               => loc[t].admission = "admitted"

\* A request is being rejected with 429 after MaxLimit requests of the same
\* window were admitted.
C1_Witness ==
    /\ limitsSeen[HostA] = {MaxLimit}
    /\ InWindow(HostA)
    /\ Len(WindowLog(HostA)) > MaxLimit
    /\ \E t \in Threads :
         /\ pc[t] = "ret"
         /\ loc[t].admission = "rejected"
         /\ loc[t].host = HostA

\* C2: spacing mode.  For a host whose requests all carry the same limit N >= 1,
\* no request is rejected and two requests admitted one after the other are at
\* least 60000 / N milliseconds apart.
C2_SpacingMode ==
    \A h \in Hosts : \A N \in 1..MaxLimit :
       limitsSeen[h] = {N} =>
          LET L == admitLog[h]
          IN  \A i \in 1..Len(L) :
                /\ L[i].admitted
                /\ i > 1 => L[i].time - L[i - 1].time >= WindowMs \div N

\* C3: rolling window.  For a host whose requests all carry the same limit N >= 1,
\* at most N requests were admitted during the last 60 seconds, whenever one
\* looks (admitLog holds the decisions of the last 60 seconds).
C3_RollingWindow ==
    \A h \in Hosts : \A N \in 1..MaxLimit :
       limitsSeen[h] = {N} => AdmittedIn(admitLog[h]) <= N

\* ------------------------------------------------------------------------
\* Concurrency: C4, C5
\* ------------------------------------------------------------------------

\* C4: atomic admission.  Whatever the interleaving of the threads, the entry of
\* a host counts exactly the requests admitted since its window started (none
\* is lost, none is counted twice), and when all requests for the host carry
\* the same limit N that number never exceeds N.
C4_AtomicAdmission ==
    \A h \in Hosts :
       InWindow(h) =>
          /\ rateLimitMap[h].requestCount = AdmittedIn(WindowLog(h))
          /\ \A N \in 1..MaxLimit :
               limitsSeen[h] = {N} => AdmittedIn(WindowLog(h)) <= N

\* While one thread is past the admission check of a request for host a, under
\* the limit MaxLimit whose window is full, another thread has called Request
\* for the same host and waits to enter.
C4_Witness ==
    \E a \in Threads : \E b \in Threads \ {a} :
       /\ pc[a] \in {"connect", "transport"}
       /\ loc[a].host = HostA
       /\ pc[b] = "req_lock"
       /\ ParseUrl(call[b].url).host = HostA
       /\ limitsSeen[HostA] = {MaxLimit}
       /\ InWindow(HostA)
       /\ AdmittedIn(WindowLog(HostA)) = MaxLimit

\* C5: no lock is held during transport I/O.  While one thread is in the
\* transport phase of its call, a thread that has called Request can enter it.
C5_NoLockDuringTransport ==
    \A a \in Threads : \A b \in Threads \ {a} :
       (pc[a] = "transport" /\ pc[b] = "req_lock") => ENABLED ReqLock(b)

\* ------------------------------------------------------------------------
\* Asynchronous dispatch: C6, C7
\* ------------------------------------------------------------------------

\* C6: exactly-once delivery.  The callback of a RequestAsync call is never
\* invoked twice, and once the thread of the call has ended the callback has
\* been invoked exactly once.
C6_CallbackExactlyOnce ==
    \A w \in Threads :
       /\ cbCount[w] <= 1
       /\ (call[w].kind = "async" /\ pc[w] \in {"exited", "terminated"})
             => cbCount[w] = 1

\* C7: dispatch ordering.  When the callback of a RequestAsync call has fired,
\* RequestAsync has returned to its caller.
C7_ReturnBeforeCallback ==
    \A w \in Threads : cbCount[w] > 0 => callerState[w] = "returned"

\* ------------------------------------------------------------------------
\* Retry: C8, C9, C10
\* ------------------------------------------------------------------------

ServerErrorMessage(statusCode) ==
    <<"Server error (status ", ToString(statusCode), ")">>

\* Every attempt of the call is answered with the same status >= 500.
PersistentServerError(script) ==
    /\ script[1].error = "none"
    /\ script[1].status >= 500
    /\ \A i \in 1..Len(script) : script[i] = script[1]

\* The first k attempts are answered with 500 and all later ones with 200.
FailsThenSucceeds(script, k) ==
    /\ Len(script) = k + 1
    /\ \A i \in 1..k : script[i] = Status(500)
    /\ script[k + 1] = Status(200)

\* C8: retry eligibility.  A call that has made more than one attempt made the
\* earlier ones with a status >= 500, and a call does not return a status >= 500
\* while max_retries leaves it a retry.
C8_RetryEligibility ==
    \A t \in Threads :
       (pc[t] = "ret" /\ attempts[t] >= 1) =>
          /\ \A i \in 1..(attempts[t] - 1) :
               LET o == ScriptAt(call[t].script, i)
               IN  o.error = "none" /\ o.status >= 500
          /\ response[t].status_code >= 500 => attempts[t] - 1 >= call[t].max_retries

\* C9: retry bound.  Against a transport that answers every attempt with the
\* same status N >= 500, a call with max_retries = R returns after exactly
\* R + 1 attempts with status N and the error message "Server error (status N)".
C9_RetryBound ==
    \A t \in Threads :
       (pc[t] = "ret" /\ attempts[t] >= 1 /\ PersistentServerError(call[t].script)) =>
          /\ attempts[t] = call[t].max_retries + 1
          /\ response[t].status_code = call[t].script[1].status
          /\ response[t].error_message = ServerErrorMessage(call[t].script[1].status)

\* C10: retry then success.  Against a transport that answers the first k
\* attempts with 500 and the later ones with 200, a call with max_retries > k
\* returns success = true and status 200 after exactly k + 1 attempts.
C10_RetryThenSuccess ==
    \A t \in Threads : \A k \in 0..(MaxScript - 1) :
       (/\ pc[t] = "ret"
        /\ attempts[t] >= 1
        /\ FailsThenSucceeds(call[t].script, k)
        /\ k < call[t].max_retries) =>
          /\ response[t].success = TRUE
          /\ response[t].status_code = 200
          /\ attempts[t] = k + 1

\* ------------------------------------------------------------------------
\* The delay between attempts: C31
\* ------------------------------------------------------------------------

\* 2^a.
RECURSIVE Pow2(_)
Pow2(a) == IF a = 0 THEN 1 ELSE 2 * Pow2(a - 1)

\* The delay before retry number a as the documentation has it: retry_delay_ms
\* when it is set, else the exponential backoff capped at one second.
RetryDelay(retryDelayMs, a) ==
    IF retryDelayMs > 0 THEN retryDelayMs
    ELSE IF 100 * Pow2(a) < 1000 THEN 100 * Pow2(a) ELSE 1000

\* The delays before the retries 1..n, together.
RECURSIVE RetryDelays_Sum(_, _)
RetryDelays_Sum(retryDelayMs, n) ==
    IF n = 0 THEN 0
    ELSE RetryDelays_Sum(retryDelayMs, n - 1) + RetryDelay(retryDelayMs, n)

\* C31: retry delay value.  Before retry number a the call waits retry_delay_ms
\* when retry_delay_ms > 0 and min(1000, 100 * 2^a) milliseconds otherwise: a
\* call with max_retries = R that is answered with the same status >= 500 every
\* time has waited the sum of these delays for a = 1..R when it returns.
C31_RetryDelay ==
    \A t \in Threads :
       (pc[t] = "ret" /\ attempts[t] >= 1 /\ PersistentServerError(call[t].script)) =>
          loc[t].slept = RetryDelays_Sum(call[t].retry_delay_ms, call[t].max_retries)

\* ------------------------------------------------------------------------
\* Transport failures, timeouts and handles: C11, C12, C13, C14
\* ------------------------------------------------------------------------

\* What the transport answers to the one attempt of thread t's call.
FirstAnswer(t) == ScriptAt(call[t].script, 1)

\* C11: transport failures are terminal.  A call whose transport attempt failed
\* (timeout, DNS, cannot connect, connection terminated, any other error of
\* send or receive) returns after that one attempt with success = false, status
\* code 0 and a message that names the failure, "Request timed out" for a
\* timeout; a call whose request handle could not be created returns without an
\* attempt, with success = false, status code 0 and a message.
C11_TransportFailureTerminal ==
    \A t \in Threads :
       (pc[t] = "ret" /\ handles[t].connectOpened > 0) =>
          LET e == FirstAnswer(t).error
              r == response[t]
          IN  /\ e \in TransportErrors =>
                    /\ attempts[t] = 1
                    /\ r.success = FALSE
                    /\ r.status_code = 0
                    /\ Len(r.error_message) > 0
                    /\ e = "timeout" => r.error_message = <<"Request timed out">>
                    /\ e = "name_not_resolved" =>
                          r.error_message = <<"DNS name resolution failed">>
                    /\ e = "cannot_connect" =>
                          r.error_message = <<"Failed to connect to server">>
                    /\ e = "connection_error" =>
                          r.error_message = <<"Connection was terminated">>
              /\ e = "open_request" =>
                    /\ attempts[t] = 0
                    /\ r.success = FALSE
                    /\ r.status_code = 0
                    /\ Len(r.error_message) > 0

\* A call returns after its one attempt timed out.
C11_Witness ==
    \E t \in Threads :
       /\ pc[t] = "ret"
       /\ attempts[t] = 1
       /\ FirstAnswer(t).error = "timeout"
       /\ response[t].error_message = <<"Request timed out">>

\* The transport does not complete the attempt of thread t's call in time: it
\* reports the timeout, or never returns at all.
NeverCompletes(t) == FirstAnswer(t).error \in {"timeout", NeverReturns}

\* C12: the timeout guarantees termination.  A call whose attempt the transport
\* does not complete in time, even one in which the transport never returns
\* control, eventually returns with success = false and a timeout message.
C12_TimeoutTerminates ==
    \A t \in Threads :
       (pc[t] = "transport" /\ NeverCompletes(t))
          ~> (/\ pc[t] = "ret"
              /\ response[t].success = FALSE
              /\ response[t].error_message = <<"Request timed out">>)

\* The loop that reads the body meets a failure (of WinHttpQueryDataAvailable or
\* of WinHttpReadData) before it ends.
BodyReadFails(chunks) ==
    \E i \in 1..Len(chunks) :
       /\ chunks[i] \in {"read_fail", "query_fail"}
       /\ \A j \in 1..(i - 1) : chunks[j] \notin {"query_fail", "end"}

\* C13: no truncated success.  A call during which the reading of the body
\* failed returns success = false.
C13_NoTruncatedSuccess ==
    \A t \in Threads :
       (/\ pc[t] = "ret"
        /\ attempts[t] = 1
        /\ FirstAnswer(t).error = "none"
        /\ BodyReadFails(FirstAnswer(t).chunks)) => response[t].success = FALSE

\* C14: handle release.  No handle is ever closed more often than it was opened,
\* and when Request is about to return, on whichever path, the connection
\* handle and the request handle it opened have each been closed exactly once.
C14_HandlesReleased ==
    \A t \in Threads :
       LET h == handles[t]
       IN  /\ h.connectClosed <= h.connectOpened
           /\ h.requestClosed <= h.requestOpened
           /\ h.connectOpened <= 1
           /\ h.requestOpened <= 1
           /\ pc[t] = "ret" =>
                 /\ h.connectClosed = h.connectOpened
                 /\ h.requestClosed = h.requestOpened

\* A call returns a failure of send or receive after it opened both handles.
C14_Witness ==
    \E t \in Threads :
       /\ pc[t] = "ret"
       /\ handles[t].connectOpened = 1
       /\ handles[t].requestOpened = 1
       /\ FirstAnswer(t).error \in TransportErrors

\* ------------------------------------------------------------------------
\* URLs: C15, C16, C17, C18, C19
\* ------------------------------------------------------------------------

\* C15: Request never raises.  No call to Request, whatever its URL, ends with
\* an exception: each ends with a response.
C15_NeverRaises == \A t \in Threads : outcome[t] # "exception"

ContainsSep(url) ==
    \E i \in 1..(Len(url) - 2) :
       url[i] = ":" /\ url[i + 1] = "/" /\ url[i + 2] = "/"

\* Thread t is inside a call to Request whose URL does not contain "://".
InCallWithoutSep(t) ==
    /\ pc[t] \in {"req_lock", "req_parse", "ret"}
    /\ ~ContainsSep(call[t].url)

\* C16: URL without separator.  A step of a call whose URL does not contain
\* "://" leaves the rate-limit table as it is and leads neither to the rate
\* limiter nor to the transport nor to an exception, and the call returns
\* success = false, status code 0 and "Invalid URL" without an attempt and
\* without a handle.
C16_NoSeparatorInvalid ==
    [][\A t \in Threads :
         (InCallWithoutSep(t) /\ pc'[t] # pc[t]) =>
            /\ rateLimitMap' = rateLimitMap
            /\ pc'[t] \in {"req_parse", "ret", "idle"}
            /\ outcome'[t] # "exception"
            /\ attempts'[t] = 0
            /\ handles'[t] = NoHandles
            /\ pc'[t] = "ret" =>
                  /\ response'[t].success = FALSE
                  /\ response'[t].status_code = 0
                  /\ response'[t].error_message = <<"Invalid URL">>]_vars

\* A call with a rate limit and a URL without "://" returns "Invalid URL" while
\* the rate-limit table holds an entry.
C16_Witness ==
    \E t \in Threads :
       /\ pc[t] = "ret"
       /\ ~ContainsSep(call[t].url)
       /\ call[t].rate_limit_per_minute > 0
       /\ response[t].error_message = <<"Invalid URL">>
       /\ HostA \in DOMAIN rateLimitMap

\* Where a call stands once ParseUrl has returned true.
AfterParse == {"rl_lock", "rl_decide", "connect", "transport"}

Parsed(t) ==
    \/ pc[t] \in AfterParse
    \/ pc[t] = "ret" /\ response[t].error_message # <<"Invalid URL">>

\* C17: scheme and port validation.  A call whose URL has a scheme other than
\* http and https, or a port outside 1..65535, goes neither to the connection
\* nor to the transport, and returns success = false, status code 0 and an
\* error message without an attempt.
C17_SchemeAndPortValidated ==
    \A t \in Threads :
       (/\ Parsed(t)
        /\ \/ loc[t].protocol \notin {Http, Https}
           \/ loc[t].port \notin 1..65535) =>
          /\ pc[t] \notin {"connect", "transport"}
          /\ handles[t] = NoHandles
          /\ pc[t] = "ret" =>
                /\ attempts[t] = 0
                /\ response[t].success = FALSE
                /\ response[t].status_code = 0
                /\ Len(response[t].error_message) > 0

\* C18: URL decomposition.  For a URL scheme://host[:port][/path], ParseUrl
\* returns true with that scheme and host, the path from the first '/' after
\* the separator on ("/" when there is none) and the given port, 443 when none
\* is given and the scheme is https, 80 when none is given otherwise; and these
\* are the values Request goes on with.
C18_UrlDecomposition ==
    \A t \in Threads : \A s \in Schemes, h \in Hosts, p \in Paths :
       \A n \in PortNumbers \cup {-1} :
          LET ps == IF n = -1 THEN NoPort ELSE PortSuffix(DecimalText(n))
              r  == ParseUrl(call[t].url)
              expected == [protocol |-> s,
                           host |-> h,
                           path |-> IF p = <<>> THEN <<"/">> ELSE p,
                           port |-> IF n # -1 THEN n
                                    ELSE IF s = Https THEN 443 ELSE 80]
          IN  call[t].url = UrlOf(s, h, ps, p) =>
                 /\ r = [ok |-> TRUE, throws |-> "none", protocol |-> expected.protocol,
                         host |-> expected.host, path |-> expected.path,
                         port |-> expected.port]
                 /\ pc[t] \in AfterParse =>
                       /\ loc[t].protocol = expected.protocol
                       /\ loc[t].host = expected.host
                       /\ loc[t].path = expected.path
                       /\ loc[t].port = expected.port

\* A call for an https URL without a port and without a path is past ParseUrl.
C18_Witness ==
    \E t \in Threads :
       /\ call[t].url = UrlOf(Https, HostB, NoPort, <<>>)
       /\ pc[t] \in AfterParse
       /\ loc[t].port = 443
       /\ loc[t].path = <<"/">>

\* C19: port separator.  When the host part of the URL holds two ':', ParseUrl
\* returns what follows the last one as the port and what precedes the last one
\* as the host.
C19_LastColonIsPortSeparator ==
    \A t \in Threads : \A s \in Schemes, h \in Hosts, p \in Paths :
       (/\ call[t].url = UrlOf(s, h, PortSuffix(TwoPorts), p)
        /\ pc[t] \in AfterParse) =>
          /\ loc[t].host = h \o PortSuffix(DecimalText(1))
          /\ loc[t].port = 2

\* ------------------------------------------------------------------------
\* Classification: C20
\* ------------------------------------------------------------------------

\* C20: success classification.  In the response a call returns, success is
\* true exactly when 200 <= status_code < 300.
C20_SuccessClassification ==
    \A t \in Threads :
       pc[t] = "ret" =>
          (response[t].success <=>
             (response[t].status_code >= 200 /\ response[t].status_code < 300))

\* A call returns the status 302 of a redirect that was not followed.
C20_Witness ==
    \E t \in Threads :
       /\ pc[t] = "ret"
       /\ response[t].status_code = 302
       /\ response[t].success = FALSE

\* ------------------------------------------------------------------------
\* Responses: C21, C22, C23
\* ------------------------------------------------------------------------

ClientErrorMessage(statusCode) ==
    <<"Client error (status ", ToString(statusCode), ")">>

\* C21: error message on every failure.  In the response a call returns, the
\* error message is non-empty exactly when success is false; when the transport
\* answered with a status 4xx it is "Client error (status N)", with a status
\* 5xx "Server error (status N)".
C21_ErrorMessageOnFailure ==
    \A t \in Threads :
       pc[t] = "ret" =>
          LET r == response[t]
          IN  /\ (Len(r.error_message) > 0) <=> (r.success = FALSE)
              /\ (attempts[t] = 1 /\ r.status_code >= 400 /\ r.status_code < 500)
                    => r.error_message = ClientErrorMessage(r.status_code)
              /\ (attempts[t] = 1 /\ r.status_code >= 500)
                    => r.error_message = ServerErrorMessage(r.status_code)

\* C22, as stated: a call that returns without an attempt having reached the
\* transport returns the status code 0.
C22_StatusZeroWithoutTransport ==
    \A t \in Threads :
       (pc[t] = "ret" /\ attempts[t] = 0) => response[t].status_code = 0

\* C22, amended: a call that returns without an attempt having reached the
\* transport returns the status code 429 when the rate limiter rejected it and
\* the status code 0 otherwise (URL rejected, no connection handle, no request
\* handle); in both cases success is false.
C22_StatusWithoutTransport ==
    \A t \in Threads :
       (pc[t] = "ret" /\ attempts[t] = 0) =>
          /\ response[t].success = FALSE
          /\ response[t].status_code =
                IF loc[t].admission = "rejected" THEN TooManyRequests ELSE 0

\* A call returns without an attempt because the session handle is NULL, after
\* the rate limiter admitted it.
C22_Witness ==
    \E t \in Threads :
       /\ pc[t] = "ret"
       /\ attempts[t] = 0
       /\ loc[t].admission = "admitted"
       /\ handles[t].connectOpened = 0
       /\ response[t].status_code = 0

\* C23: one response per call.  Every call to Request that has ended has ended
\* with a response (with exactly one: Request returns once), and the response
\* of a call that made an attempt carries the status of its last attempt.
C23_OneResponsePerCall ==
    \A t \in Threads :
       /\ (pc[t] = "idle" /\ outcome[t] # "none") => outcome[t] = "response"
       /\ (pc[t] = "ret" /\ attempts[t] >= 1) =>
             response[t].status_code = ScriptAt(call[t].script, attempts[t]).status

\* ------------------------------------------------------------------------
\* The limiter's scope: C24, C25
\* ------------------------------------------------------------------------

\* The host written in a URL scheme://host[:port][/path].
HostOfUrl(url) ==
    CHOOSE h \in Hosts :
       \E sch \in Schemes, ps \in PortSuffixes, p \in Paths : url = UrlOf(sch, h, ps, p)

\* The table holds entries for hosts only; the entry the limiter consults for a
\* call is that of the host of its URL; and the entry of a host counts the
\* requests admitted for the host in its window, whatever their paths.
HostKeyed ==
    /\ DOMAIN rateLimitMap \subseteq Hosts
    /\ \A t \in Threads :
         pc[t] = "rl_decide" =>
            LET h == HostOfUrl(call[t].url)
            IN  /\ h \in DOMAIN rateLimitMap
                /\ loc[t].seenCount = rateLimitMap[h].requestCount
                /\ loc[t].seenLast = rateLimitMap[h].lastRequest
    /\ \A h \in Hosts :
         InWindow(h) => rateLimitMap[h].requestCount = AdmittedIn(WindowLog(h))

\* C24: per-host budget.  The rate-limit entry is that of the URL's host, so
\* that requests for different paths of a host use the same budget; and only a
\* request for a host changes that host's entry and adds to the admission
\* decisions taken for it.
C24_PerHostBudget ==
    [][/\ HostKeyed'
       /\ \A h \in Hosts :
            (\/ EntryOf(rateLimitMap', h) # EntryOf(rateLimitMap, h)
             \/ admitLog'[h] # admitLog[h]) =>
               \E t \in Threads :
                  /\ pc[t] = "rl_decide"
                  /\ pc'[t] # pc[t]
                  /\ HostOfUrl(call[t].url) = h]_vars

\* Under the limit 1, a request for host b and then one for host a were
\* admitted, and the next request, for another path of host a, is rejected
\* while the entry of host b is as its own request left it.
C24_Witness ==
    \E t \in Threads :
       /\ pc[t] = "ret"
       /\ call[t].url = UrlAPath
       /\ loc[t].admission = "rejected"
       /\ history.has
       /\ history.call.url = UrlA
       /\ history.response.success
       /\ limitsSeen = [h \in Hosts |-> {1}]
       /\ AdmittedIn(admitLog[HostA]) = 1
       /\ Len(admitLog[HostB]) = 1
       /\ EntryOf(rateLimitMap, HostB).requestCount = 1

\* Thread t leaves ApplyRateLimit in this step.
Decides(t) == pc[t] = "rl_decide" /\ pc'[t] # "rl_decide"

\* C35: window reset.  A request for a host that has an entry, made 60000 ms or
\* more after the entry's window started, is admitted, also when requests for
\* the host were rejected before it, and it starts a new window with the
\* counter at 1.
C35_WindowReset ==
    [][\A t \in Threads :
          LET h == HostOfUrl(call[t].url)
              e == EntryOf(rateLimitMap, h)
          IN  (/\ Decides(t)
               /\ e.requestCount > 0
               /\ clock - e.lastRequest >= WindowMs) =>
                 /\ loc'[t].admission = "admitted"
                 /\ pc'[t] = "connect"
                 /\ EntryOf(rateLimitMap', h) = [lastRequest |-> clock, requestCount |-> 1]]_vars

\* A request for the host was rejected, and the request made 60000 ms after
\* the window started has been admitted as the first of a new window.
C35_Witness ==
    \E t \in Threads :
       /\ pc[t] = "connect"
       /\ loc[t].host = HostA
       /\ loc[t].admission = "admitted"
       /\ loc[t].seenCount > 0
       /\ loc[t].now - loc[t].seenLast >= WindowMs
       /\ \E i \in 1..Len(admitLog[HostA]) :
             /\ ~admitLog[HostA][i].admitted
             /\ admitLog[HostA][i].time < loc[t].now
       /\ rateLimitMap[HostA] = [lastRequest |-> loc[t].now, requestCount |-> 1]

\* C36: a rejected request consumes nothing.  When ApplyRateLimit rejects a
\* request the table is what it was before the call: the window start and the
\* count of the host are unchanged, and so are the other hosts' entries.
C36_RejectionLeavesEntry ==
    [][\A t \in Threads :
          (Decides(t) /\ loc'[t].admission = "rejected") =>
             LET h == HostOfUrl(call[t].url)
             IN  /\ rateLimitMap' = rateLimitMap
                 /\ rateLimitMap'[h] = [lastRequest |-> loc[t].seenLast,
                                        requestCount |-> loc[t].seenCount]]_vars

\* A second request in a row has been rejected, and the entry is still the
\* one the admitted requests left.
C36_Witness ==
    \E t \in Threads :
       /\ pc[t] = "ret"
       /\ loc[t].admission = "rejected"
       /\ Len(admitLog[HostA]) >= 3
       /\ ~admitLog[HostA][Len(admitLog[HostA]) - 1].admitted
       /\ rateLimitMap[HostA].requestCount = call[t].rate_limit_per_minute
       /\ rateLimitMap[HostA].lastRequest < loc[t].now

\* C37: counter invariant.  While no thread is inside ApplyRateLimit, the entry
\* of a host whose requests all carried the same limit N >= 1 has a count from
\* 1 to N, and the table has entries only for hosts that a rate-limited
\* request was made for.
C37_CounterInvariant ==
    rateLimitMutex = NoThread =>
       /\ \A h \in DOMAIN rateLimitMap : h \in Hosts /\ limitsSeen[h] # {}
       /\ \A h \in Hosts : \A N \in 1..MaxLimit :
             (limitsSeen[h] = {N} /\ h \in DOMAIN rateLimitMap) =>
                /\ rateLimitMap[h].requestCount >= 1
                /\ rateLimitMap[h].requestCount <= N

\* Host a's count is at the limit, a request for it has been rejected, and
\* host b, which no request was made for, has no entry.
C37_Witness ==
    /\ rateLimitMutex = NoThread
    /\ limitsSeen[HostA] = {MaxLimit}
    /\ rateLimitMap[HostA].requestCount = MaxLimit
    /\ \E i \in 1..Len(admitLog[HostA]) : ~admitLog[HostA][i].admitted
    /\ HostB \notin DOMAIN rateLimitMap

\* Thread t is inside a call with rate_limit_per_minute <= 0.
InCallWithoutLimit(t) ==
    /\ pc[t] \in {"req_lock", "req_parse", "connect", "transport", "ret"}
    /\ call[t].rate_limit_per_minute <= 0

\* C25: rate limiting disabled.  A step of a call with rate_limit_per_minute <= 0
\* leaves the rate-limit table as it is, does not lead to the limiter, and takes
\* no admission decision; the call does not return the status 429.
C25_DisabledLimiter ==
    [][\A t \in Threads :
         (InCallWithoutLimit(t) /\ pc'[t] # pc[t]) =>
            /\ rateLimitMap' = rateLimitMap
            /\ admitLog' = admitLog
            /\ pc'[t] \notin {"rl_lock", "rl_decide"}
            /\ loc'[t].admission = "none"
            /\ response'[t].status_code # TooManyRequests]_vars

\* A call with a negative rate_limit_per_minute is past the limiter's place
\* while the window of its host is full.
C25_Witness ==
    \E t \in Threads :
       /\ pc[t] = "connect"
       /\ call[t].rate_limit_per_minute < 0
       /\ loc[t].host = HostA
       /\ InWindow(HostA)
       /\ limitsSeen[HostA] = {MaxLimit}
       /\ rateLimitMap[HostA].requestCount = MaxLimit

\* ------------------------------------------------------------------------
\* What is handed to the transport: C26, C27
\* ------------------------------------------------------------------------

\* Thread t is about to return from a call whose request was sent.
Sent(t) == pc[t] = "ret" /\ attempts[t] > 0

\* C26: Authorization header precedence.  The headers of a request that was
\* sent hold Authorization: Bearer <oauth_token> when oauth_token is set,
\* whatever api_key and additional_headers hold, and otherwise
\* Authorization: Bearer <api_key> when api_key is set.
C26_AuthorizationPrecedence ==
    \A t \in Threads :
       Sent(t) =>
          /\ call[t].oauth_token # <<>> =>
                loc[t].headers["Authorization"] = Bearer(call[t].oauth_token)
          /\ (call[t].oauth_token = <<>> /\ call[t].api_key # <<>>) =>
                loc[t].headers["Authorization"] = Bearer(call[t].api_key)

\* The name of the verb of each method.
MethodVerb(method) ==
    CASE method = "HTTP_GET"    -> "GET"
      [] method = "HTTP_POST"   -> "POST"
      [] method = "HTTP_PUT"    -> "PUT"
      [] method = "HTTP_PATCH"  -> "PATCH"
      [] method = "HTTP_DELETE" -> "DELETE"

\* C27: method fidelity.  The verb of a request that was sent is the verb of
\* the call's method, for each of GET, POST, PUT, PATCH and DELETE.
C27_MethodFidelity ==
    \A t \in Threads :
       Sent(t) => loc[t].pwszVerb = MethodVerb(call[t].method)
\* ------------------------------------------------------------------------
\* The session: C28, C29
\* ------------------------------------------------------------------------

\* C28: Initialize is idempotent.  Whatever calls of Initialize were made, one
\* after the other or not, exactly one session is open while the session
\* handle is set, the one the handle names, and none is open while it is NULL:
\* no call has opened a second session or dropped the handle of an open one.
C28_InitializeIdempotent ==
    openSessions = IF hSession = "NULL" THEN 0 ELSE 1
\* C38: no use of a closed session.  While a request holds a connection that
\* it opened on the session and has not closed yet, that is from WinHttpConnect
\* to the end of its transport operations, the session handle is not closed.
C38_NoUseOfClosedSession ==
    \A t \in Threads :
       handles[t].connectOpened > handles[t].connectClosed => hSession = "OPEN"

\* Thread t is about to return from a call that ran without a session.
ReturnsWithoutSession(t) == pc[t] = "ret" /\ hSession = "NULL"

\* C29 as stated: a Request issued while the session handle is NULL returns
\* success = false with status_code 0 and sends nothing.
C29_FailsFastWithStatusZero ==
    \A t \in Threads :
       ReturnsWithoutSession(t) =>
          /\ ~response[t].success
          /\ response[t].status_code = 0
          /\ attempts[t] = 0

\* C29: a Request issued while the session handle is NULL, before Initialize
\* or after Cleanup, returns success = false and sends nothing, no connection
\* handle being opened; its status_code is 0, or 429 when the rate limiter
\* rejected the call.
C29_FailsFastWithoutSession ==
    \A t \in Threads :
       ReturnsWithoutSession(t) =>
          /\ ~response[t].success
          /\ attempts[t] = 0
          /\ handles[t].connectOpened = 0
          /\ response[t].status_code =
                IF loc[t].admission = "rejected" THEN TooManyRequests ELSE 0

\* After a call that ran in a session and a Cleanup, a call fails to connect.
C29_Witness ==
    \E t \in Threads :
       /\ ReturnsWithoutSession(t)
       /\ response[t].error_message = <<"Failed to connect">>
       /\ history.has
       /\ history.session = "OPEN"

\* ------------------------------------------------------------------------
\* Two calls in a row: C30
\* ------------------------------------------------------------------------

\* Thread t is about to return from a call that repeats the call that returned
\* before it: the same arguments, the same answers of the transport, the same
\* session state.
Repeats(t) ==
    /\ pc[t] = "ret"
    /\ history.has
    /\ history.outcome = "response"
    /\ history.call = call[t]
    /\ history.session = hSession

\* C30 as stated: the second of two identical calls returns the response of
\* the first.
C30_IdenticalResponses ==
    \A t \in Threads : Repeats(t) => response[t] = history.response

\* C30: the second of two identical calls made one after the other in the same
\* session state returns the response of the first when rate limiting is
\* disabled, and with a limit unless the limiter rejected exactly one of them.
C30_IdenticalUpToLimiter ==
    \A t \in Threads :
       Repeats(t) =>
          /\ call[t].rate_limit_per_minute <= 0 => response[t] = history.response
          /\ (history.admission = "rejected") = (loc[t].admission = "rejected") =>
                response[t] = history.response

\* Under the limit 1 a call is admitted and answered as the same call before
\* it was, the window of the first having ended in between.
C30_Witness ==
    \E t \in Threads :
       /\ Repeats(t)
       /\ call[t].rate_limit_per_minute = 1
       /\ loc[t].admission = "admitted"
       /\ history.admission = "admitted"
       /\ attempts[t] > 0
       /\ response[t] = history.response
\* ------------------------------------------------------------------------
\* The timeouts of a request: C32
\* ------------------------------------------------------------------------

\* v milliseconds are s seconds; are at most s seconds.
IsSeconds(v, s) == v \div 1000 = s /\ v % 1000 = 0

AtMostSeconds(v, s) == v \div 1000 < s \/ IsSeconds(v, s)

\* C32: sub-timeout derivation.  A request that was sent with timeout_seconds =
\* t > 0 had its timeouts set to min(15000, T/4) for the name resolution,
\* min(30000, T/2) for the connection and T for sending and for receiving,
\* where T = 1000 * t; none of them is beyond T.  (T/4 = 250 * t is at least
\* 15000, and T/2 = 500 * t at least 30000, from t = 60 on.)
C32_SubTimeouts ==
    \A t \in Threads :
       (Sent(t) /\ call[t].timeout_seconds > 0) =>
          LET s == call[t].timeout_seconds
              x == loc[t].timeouts
          IN  /\ x.set
              /\ x.resolve = IF s >= 60 THEN 15000 ELSE 250 * s
              /\ x.connect = IF s >= 60 THEN 30000 ELSE 500 * s
              /\ IsSeconds(x.send, s)
              /\ IsSeconds(x.receive, s)
              /\ \A v \in {x.resolve, x.connect, x.send, x.receive} :
                    AtMostSeconds(v, s)
\* ------------------------------------------------------------------------
\* UrlEncode: C33
\* ------------------------------------------------------------------------

\* The unreserved bytes: ASCII letters, digits, '-', '_', '.', '~'.
Unreserved(b) == IsAlnumAscii(b) \/ b \in {45, 95, 46, 126}

\* The value of a hexadecimal digit, of either case; -1 for another byte.
HexValue(d) ==
    CASE d \in 48..57  -> d - 48
      [] d \in 97..102 -> d - 87
      [] d \in 65..70  -> d - 55
      [] OTHER         -> -1

\* out is in with every byte that is not unreserved replaced by '%' and the
\* two hexadecimal digits of its value.
RECURSIVE PercentEncoded(_, _)
PercentEncoded(in, out) ==
    IF in = <<>> THEN out = <<>>
    ELSE IF Unreserved(Head(in))
    THEN /\ Len(out) >= 1
         /\ Head(out) = Head(in)
         /\ PercentEncoded(Tail(in), Tail(out))
    ELSE /\ Len(out) >= 3
         /\ out[1] = 37
         /\ HexValue(out[2]) >= 0
         /\ HexValue(out[3]) >= 0
         /\ 16 * HexValue(out[2]) + HexValue(out[3]) = Head(in)
         /\ PercentEncoded(Tail(in), SubSeq(out, 4, Len(out)))

\* C33: UrlEncode output format.  UrlEncode copies each unreserved byte and
\* replaces every other byte by '%' and exactly two hexadecimal digits of its
\* value, so that its result has as many bytes as the input has unreserved
\* bytes plus three for each other byte; "Hello World!" gives
\* "Hello%20World%21".
C33_UrlEncodeFormat ==
    encoded # NotEncoded =>
       LET plain == Cardinality({i \in 1..Len(input) : Unreserved(input[i])})
       IN  /\ PercentEncoded(input, encoded)
           /\ Len(encoded) = plain + 3 * (Len(input) - plain)
           /\ input = HelloWorld =>
                 encoded = <<72, 101, 108, 108, 111, 37, 50, 48,
                             87, 111, 114, 108, 100, 37, 50, 49>>
\* ------------------------------------------------------------------------
\* Post and Put: C34
\* ------------------------------------------------------------------------

\* C34: a Content-Type of the configuration is honoured.  A request that Post
\* or Put sent for a call with an empty content_type and a configuration that
\* holds a Content-Type entry carries the configuration's Content-Type.
C34_ConfiguredContentType ==
    \A t \in Threads :
       (/\ Sent(t)
        /\ call[t].via.name \in {"Post", "Put"}
        /\ call[t].via.content_type = EmptyString
        /\ call[t].via.additional_headers["Content-Type"] # Absent) =>
          loc[t].headers["Content-Type"] = call[t].via.additional_headers["Content-Type"]
\* ------------------------------------------------------------------------
\* WebSocket: C39, C40
\* ------------------------------------------------------------------------

\* C39: the state after a failed Connect.  When Connect has returned false,
\* at whichever step it failed, the state is CLOSED, no handle is open and
\* neither thread is running.
C39_ClosedAfterFailedConnect ==
    (wsCaller.pc = "idle" /\ wsCaller.result = "connect_failed") =>
       /\ impl.state = "CLOSED"
       /\ impl.hSession = "NULL"
       /\ impl.hConnection = "NULL"
       /\ impl.hWebSocket = "NULL"
       /\ wsCaller.hRequest # "OPEN"
       /\ impl.receiveThread = "none"
       /\ impl.pingThread = "none"
       /\ wsThreads.receive = "none"
       /\ wsThreads.ping = "none"

\* C40: Disconnect terminates.  A call of Disconnect after a successful
\* Connect returns, with the state CLOSED and both threads joined.
C40_DisconnectTerminates ==
    (wsCaller.pc = "join_receive" /\ wsCaller.result = "connected") ~>
       (/\ wsCaller.pc = "idle"
        /\ wsCaller.result = "disconnected"
        /\ impl.state = "CLOSED"
        /\ impl.receiveThread = "none"
        /\ impl.pingThread = "none")
====
